---- MODULE Spec2Model ----
(***************************************************************************)
(* Model of the YoCHAN offline intent pipeline (ai_core.py, state.py):     *)
(*   normalize_text -> detect_intent_offline -> execute_intent             *)
(* Texts are TLA+ strings handled character by character, so substring     *)
(* tests, filler removal and digit extraction are computed as the Python   *)
(* code computes them.                                                     *)
(***************************************************************************)
EXTENDS Integers, Sequences, FiniteSets, TLC

VARIABLES
    last_action,             \* STATE.last_action            (state.py:16)
    last_app,                \* STATE.last_app               (state.py:17)
    last_brightness_change,  \* STATE.last_brightness_change (state.py:18)
    last_volume_change,      \* STATE.last_volume_change     (state.py:19)
    recent_commands,         \* STATE.recent_commands        (state.py:20)
    op,                      \* the function invoked by the last step
    utterance,               \* the raw text given to handle_voice_input
    text,                    \* the text given to detect_intent_offline
    intent,                  \* the Intent built / dispatched by the last step
    calls,                   \* handler calls made by the last step, in order
    result,                  \* the string returned by the last step
    steps,                   \* number of invocations so far
    norm1,                   \* normalize_text(utterance)           (SpecNorm)
    norm2,                   \* normalize_text(normalize_text(utterance))
    pc,                      \* where the listener process is
    env,                     \* what config.py read from the environment
    keyword_paths,           \* KEYWORD_PATHS          (yochan_listener.py:126)
    porcupine,               \* the Porcupine engine   (yochan_listener.py:184)
    recorder,                \* the PvRecorder         (yochan_listener.py:185)
    keyword_index,           \* what porcupine.process(pcm) returned last
    raised,                  \* the exception that left the wake-word loop
    exit_code,               \* how the listener process ended
    app_commands,            \* APP_COMMANDS           (apps.py:8)
    user_file,               \* content of yochan_apps.user.json
    match                    \* what _match_app_fuzzy returned

vars == <<last_action, last_app, last_brightness_change, last_volume_change,
          recent_commands, op, utterance, text, intent, calls, result, steps,
          norm1, norm2, pc, env, keyword_paths, porcupine, recorder,
          keyword_index, raised, exit_code, app_commands, user_file, match>>

\* the listener process
listener == <<pc, env, keyword_paths, porcupine, recorder, keyword_index,
              raised, exit_code>>

\* the lexicon loader and the fuzzy resolver
lexicon == <<app_commands, user_file, match>>

ctx == <<last_action, last_app, last_brightness_change, last_volume_change,
         recent_commands>>

\* Optional[T]: None is the empty tuple, a present value v is <<v>>
None == <<>>
Some(v) == <<v>>
Get(o) == o[1]

-----------------------------------------------------------------------------
(* Bounds *)

\* utterances handled in one behaviour of Spec
MaxSteps == 2
\* fragments concatenated into one raw text of SpecNorm
MaxFrags == 3
\* utterances handled in one behaviour of SpecSession
MaxSession == 3
\* utterances handled in one behaviour of SpecHistory
MaxHistory == 12
\* .ppn files in the wake-word directory
MaxPpn == 2
\* commands captured in one behaviour of SpecLoop
MaxCommands == 2

\* members of the JSON object of a user file
MaxMembers == 2

-----------------------------------------------------------------------------
(* Python str primitives *)

\* s[i-1:j] with Python's clamping of out-of-range slice bounds (i >= 1)
Slice(s, i, j) ==
    IF i > j \/ i > Len(s) THEN ""
    ELSE SubSeq(s, i, IF j > Len(s) THEN Len(s) ELSE j)

\* the i-th character of s, "" past the end
Char(s, i) == Slice(s, i, i)

\* `sub in s`
Contains(s, sub) ==
    \E i \in 1..(Len(s) - Len(sub) + 1) : SubSeq(s, i, i + Len(sub) - 1) = sub

UpperChars == "ABCDEFGHIJKLMNOPQRSTUVWXYZ"
LowerChars == "abcdefghijklmnopqrstuvwxyz"

\* the lower-case letter of every upper-case letter
LowerOf ==
    [c \in {Char(UpperChars, i) : i \in 1..Len(UpperChars)} |->
        Char(LowerChars, CHOOSE i \in 1..Len(UpperChars) : Char(UpperChars, i) = c)]

LowerChar(c) == IF c \in DOMAIN LowerOf THEN LowerOf[c] ELSE c

\* str.lower()
RECURSIVE Lower(_)
Lower(s) == IF s = "" THEN "" ELSE LowerChar(Head(s)) \o Lower(Tail(s))

Whitespace == {" ", "\t", "\n"}

RECURSIVE LStrip(_)
LStrip(s) == IF s # "" /\ Head(s) \in Whitespace THEN LStrip(Tail(s)) ELSE s

RECURSIVE RStrip(_)
RStrip(s) ==
    IF s # "" /\ Char(s, Len(s)) \in Whitespace
    THEN RStrip(SubSeq(s, 1, Len(s) - 1))
    ELSE s

\* str.strip()
Strip(s) == RStrip(LStrip(s))

\* str.replace(old, new): leftmost non-overlapping occurrences, old non-empty
RECURSIVE Replace(_, _, _)
Replace(s, old, new) ==
    IF Len(s) < Len(old) THEN s
    ELSE IF SubSeq(s, 1, Len(old)) = old
         THEN new \o Replace(SubSeq(s, Len(old) + 1, Len(s)), old, new)
         ELSE Head(s) \o Replace(Tail(s), old, new)

\* the first whitespace-free run of s (s starts with a non-space character)
RECURSIVE FirstWord(_)
FirstWord(s) ==
    IF s = "" \/ Head(s) \in Whitespace THEN ""
    ELSE Head(s) \o FirstWord(Tail(s))

\* str.split(): the whitespace-separated words of s
RECURSIVE Split(_)
Split(s) ==
    LET t == LStrip(s)
        w == FirstWord(t)
    IN  IF t = "" THEN <<>>
        ELSE <<w>> \o Split(SubSeq(t, Len(w) + 1, Len(t)))

\* sep.join(words)
RECURSIVE Join(_, _)
Join(sep, words) ==
    IF words = <<>> THEN ""
    ELSE IF Len(words) = 1 THEN words[1]
    ELSE words[1] \o sep \o Join(sep, Tail(words))

-----------------------------------------------------------------------------
(* ai_core.py : normalization *)

FILLER_PHRASES ==
    << "yochan", "yo chan",
       "please", "can you",
       "will you", "would you",
       "uh", "umm", "um",
       "kind of", "sort of",
       "a little", "a bit" >>

Punctuation == {",", ".", "?", "!"}

\* re.sub(r"[,\.\?!]", " ", text)
RECURSIVE StripPunctuation(_)
StripPunctuation(s) ==
    IF s = "" THEN ""
    ELSE (IF Head(s) \in Punctuation THEN " " ELSE Head(s))
         \o StripPunctuation(Tail(s))

\* for f in FILLER_PHRASES: text = text.replace(f, " ")
RECURSIVE RemoveFillers(_, _)
RemoveFillers(s, k) ==
    IF k > Len(FILLER_PHRASES) THEN s
    ELSE RemoveFillers(Replace(s, FILLER_PHRASES[k], " "), k + 1)

normalize_text(s) ==
    LET lowered == Strip(Lower(s))
        nopunct == StripPunctuation(lowered)
        nofill  == RemoveFillers(nopunct, 1)
    IN  Join(" ", Split(nofill))

-----------------------------------------------------------------------------
(* Raw texts for the normalization specification *)

Fragments ==
    { "yo", "chan", "a", "bit", "uh", "Please", "brighter", " ", ",", "  " }

RECURSIVE Concats(_)
Concats(n) ==
    IF n = 0 THEN {""}
    ELSE LET shorter == Concats(n - 1)
         IN  shorter \cup { f \o t : f \in Fragments, t \in shorter }

RawTexts == Concats(MaxFrags)

-----------------------------------------------------------------------------
(* apps.py : the lexicon *)

\* keys of APP_COMMANDS in dict (insertion) order
APP_COMMANDS_KEYS ==
    << "firefox", "brave", "browser", "brave browser", "thunderbird",
       "mail reader",
       "vscode", "vs code", "code", "visual studio code", "visual studio",
       "sublime text", "sublime", "idle", "vim",
       "gimp", "inkscape", "blender", "photoshop", "figma", "sigma",
       "drawing", "pix", "xviewer",
       "terminal", "terminal emulator", "file explorer", "explorer",
       "file manager", "settings", "settings manager", "app finder",
       "task manager", "manager", "calculator", "calendar",
       "volume control", "pavucontrol",
       "whatsapp", "what's up", "camera", "cheese", "hypnotix", "celluloid",
       "rhythmbox", "warpinator",
       "gparted", "disks", "disk utility", "backup", "drivers",
       "software manager", "update manager", "timeshift", "printer", "scan",
       "vpn", "vpn app", "firewall", "users",
       "onboard", "dict",
       "file roller", "archive manager", "downloader", "transmission",
       "photos", "sketch" >>

\* values of APP_COMMANDS, in the order of their keys ('manager' is written
\* twice in the dict literal: it keeps its first position and its last value)
APP_COMMANDS_VALUES ==
    << "firefox", "brave-browser", "firefox", "brave-browser",
       "thunderbird", "xfce4-mail-reader", "code", "code", "code", "code",
       "code", "sublime_text", "sublime_text", "idle-python3.12", "vim",
       "gimp", "inkscape", "blender", "gimp",
       "flatpak run com.figma.Figma", "flatpak run com.figma.Figma",
       "com.github.maoschanz.drawing", "pix", "xviewer", "xfce4-terminal",
       "xfce4-terminal", "thunar", "thunar", "thunar",
       "xfce4-settings-manager", "xfce4-settings-manager",
       "xfce4-appfinder", "xfce4-taskmanager", "xfce4-settings-manager",
       "gnome-calculator", "gnome-calendar", "pavucontrol", "pavucontrol",
       "whatsapp-desktop", "whatsapp-desktop", "cheese", "gnome-cheese",
       "hypnotix", "io.github.celluloid_player.Celluloid", "rhythmbox",
       "warpinator", "gparted", "gnome-disks", "gnome-disks",
       "mintbackup", "mintdrivers", "mintinstall", "mintupdate",
       "timeshift-gtk", "system-config-printer", "simple-scan",
       "protonvpn", "protonvpn", "gufw", "users", "onboard", "xfce4-dict",
       "file-roller", "file-roller", "transmission-gtk",
       "transmission-gtk", "pix", "com.github.maoschanz.drawing" >>

\* APP_COMMANDS as the list of its items
APP_COMMANDS ==
    [k \in 1..Len(APP_COMMANDS_KEYS) |->
        <<APP_COMMANDS_KEYS[k], APP_COMMANDS_VALUES[k]>>]

MaxKeyLen ==
    CHOOSE n \in 0..64 :
        /\ \E i \in 1..Len(APP_COMMANDS_KEYS) : Len(APP_COMMANDS_KEYS[i]) = n
        /\ \A i \in 1..Len(APP_COMMANDS_KEYS) : Len(APP_COMMANDS_KEYS[i]) <= n

\* sorted(APP_COMMANDS.keys(), key=len, reverse=True): longest first, keys of
\* equal length in dict order (the sort is stable)
RECURSIVE KeysOfLenAtMost(_)
KeysOfLenAtMost(n) ==
    IF n = 0 THEN <<>>
    ELSE SelectSeq(APP_COMMANDS_KEYS, LAMBDA k : Len(k) = n)
         \o KeysOfLenAtMost(n - 1)

\* sorted(..., key=len) without reverse=True: shortest first
RECURSIVE KeysOfLenAtLeast(_)
KeysOfLenAtLeast(n) ==
    IF n > MaxKeyLen THEN <<>>
    ELSE SelectSeq(APP_COMMANDS_KEYS, LAMBDA k : Len(k) = n)
         \o KeysOfLenAtLeast(n + 1)

candidatesShortestFirst == KeysOfLenAtLeast(1)

candidates == KeysOfLenAtMost(MaxKeyLen)

\* name_low = name.lower() of every candidate
name_low == [k \in 1..Len(candidates) |-> Lower(candidates[k])]

-----------------------------------------------------------------------------
(* ai_core.py : helpers *)

\* first candidate, from position k on, whose lower-cased name occurs in s
RECURSIVE FirstCandidateIn(_, _)
FirstCandidateIn(s, k) ==
    IF k > Len(candidates) THEN None
    ELSE IF Contains(s, name_low[k]) THEN Some(candidates[k])
    ELSE FirstCandidateIn(s, k + 1)

_match_app_in_text(s) ==
    IF s = "" THEN None ELSE FirstCandidateIn(s, 1)

Digits == "0123456789"

\* the value of every decimal digit
DigitVal == [c \in {Char(Digits, i) : i \in 1..10} |->
                (CHOOSE i \in 1..10 : Char(Digits, i) = c) - 1]

IsDigit(c) == c \in DOMAIN DigitVal

\* the maximal run of digits of s that starts at position i
RECURSIVE DigitRun(_, _)
DigitRun(s, i) ==
    IF i > Len(s) \/ ~IsDigit(Char(s, i)) THEN ""
    ELSE Char(s, i) \o DigitRun(s, i + 1)

\* int(digits)
RECURSIVE ToInt(_)
ToInt(d) ==
    IF d = "" THEN 0
    ELSE 10 * ToInt(SubSeq(d, 1, Len(d) - 1)) + DigitVal[Char(d, Len(d))]

\* re.search(r"(\d+)", text): the leftmost, longest run of digits
_extract_number(s) ==
    IF \E i \in 1..Len(s) : IsDigit(Char(s, i))
    THEN Some(ToInt(DigitRun(s, CHOOSE i \in 1..Len(s) :
                                   /\ IsDigit(Char(s, i))
                                   /\ \A j \in 1..(i - 1) : ~IsDigit(Char(s, j)))))
    ELSE None

\* any(p in s for p in phrases)
AnyIn(s, phrases) == \E p \in phrases : Contains(s, p)

AbsKeepsSign(n) == n

\* abs()
Abs(n) == IF n < 0 THEN -n ELSE n

\* index just past the run of whitespace of s that starts at position i (\s*)
RECURSIVE SkipSpaces(_, _)
SkipSpaces(s, i) ==
    IF i <= Len(s) /\ Char(s, i) \in Whitespace THEN SkipSpaces(s, i + 1) ELSE i

\* s has prefix p at position i
StartsAt(s, i, p) == Slice(s, i, i + Len(p) - 1) = p

\* the alternation (second|seconds|minute|minutes|hour|hours): the regex
\* engine takes the first alternative that matches, so the plural "s" is
\* never part of the match
TimeUnits == << "second", "seconds", "minute", "minutes", "hour", "hours" >>

UnitSeconds(u) ==
    CASE u \in {"second", "seconds"} -> 1
      [] u \in {"minute", "minutes"} -> 60
      [] u \in {"hour", "hours"}     -> 3600

UnitAt(s, i) ==
    IF \E k \in 1..Len(TimeUnits) : StartsAt(s, i, TimeUnits[k])
    THEN Some(TimeUnits[CHOOSE k \in 1..Len(TimeUnits) :
                      /\ StartsAt(s, i, TimeUnits[k])
                      /\ \A j \in 1..(k - 1) : ~StartsAt(s, i, TimeUnits[j])])
    ELSE None

\* position i starts a run of digits
RunStart(s, i) ==
    /\ IsDigit(Char(s, i))
    /\ (i = 1 \/ ~IsDigit(Char(s, i - 1)))

\* r"(\d+)\s*(second|...)" matches at the run of digits starting at i
DurationAt(s, i) ==
    /\ RunStart(s, i)
    /\ UnitAt(s, SkipSpaces(s, i + Len(DigitRun(s, i)))) # None

\* length of a\.?m\.? | p\.?m\.? matched at position i, 0 when none
MeridiemLen(s, i) ==
    IF i > Len(s) \/ Char(s, i) \notin {"a", "p"} THEN 0
    ELSE LET j == IF Char(s, i + 1) = "." THEN i + 2 ELSE i + 1
         IN  IF j > Len(s) \/ Char(s, j) # "m" THEN 0
             ELSE IF Char(s, j + 1) = "." THEN j + 2 - i ELSE j + 1 - i

\* end (exclusive) of r"(\d+)(\s*(\d+))?\s*(a\.?m\.?|p\.?m\.?)" matched at the
\* run of digits starting at i, 0 when it does not match there
AlarmEnd(s, i) ==
    IF ~RunStart(s, i) THEN 0
    ELSE LET e1 == i + Len(DigitRun(s, i))
             w1 == SkipSpaces(s, e1)
             e2 == w1 + Len(DigitRun(s, w1))
             w2 == SkipSpaces(s, e2)
         IN  IF w1 > e1 /\ e2 > w1 /\ MeridiemLen(s, w2) > 0
             THEN w2 + MeridiemLen(s, w2)
             ELSE IF MeridiemLen(s, w1) > 0 THEN w1 + MeridiemLen(s, w1)
             ELSE 0

AlarmAt(s, i) == AlarmEnd(s, i) > 0

\* re.search: the leftmost position where the duration pattern matches, 0
\* when it matches nowhere
LeftmostDuration(s) ==
    IF \E i \in 1..Len(s) : DurationAt(s, i)
    THEN CHOOSE i \in 1..Len(s) :
            DurationAt(s, i) /\ \A j \in 1..(i - 1) : ~DurationAt(s, j)
    ELSE 0

\* re.search: the leftmost position where the alarm pattern matches, 0 when
\* it matches nowhere
LeftmostAlarm(s) ==
    IF \E i \in 1..Len(s) : AlarmAt(s, i)
    THEN CHOOSE i \in 1..Len(s) :
            AlarmAt(s, i) /\ \A j \in 1..(i - 1) : ~AlarmAt(s, j)
    ELSE 0

\* returns <<raw_time_str, duration_in_seconds>>
_extract_time_duration(s) ==
    LET d == LeftmostDuration(s)
        a == LeftmostAlarm(s)
    IN  IF d > 0
        THEN LET run  == DigitRun(s, d)
                 u    == SkipSpaces(s, d + Len(run))
                 unit == Get(UnitAt(s, u))
             IN  << Some(SubSeq(s, d, u + Len(unit) - 1)),
                    Some(ToInt(run) * UnitSeconds(unit)) >>
        ELSE IF a > 0
        THEN << Some(SubSeq(s, a, AlarmEnd(s, a) - 1)), None >>
        ELSE << None, None >>

-----------------------------------------------------------------------------
(* ai_core.py : offline intent NLU *)

\* an Intent (TypedDict, total=False): an absent key is None
Intent(type, raw) ==
    [type |-> type, raw |-> raw, app |-> None, value |-> None, delta |-> None,
     time_str |-> None, duration_s |-> None]

\* Python truthiness of an Optional[str]
Truthy(o) == o # None /\ Get(o) # ""

\* the remembered delta is ignored: always the default
OrDefaultForgets(n, default) == default

\* `state.last_x_change or default`
OrDefault(n, default) == IF n # 0 THEN n ELSE default

\* brightness domain (ai_core.py 218-269); None when no rule of it returns
BrightnessRules(s, lbc) ==
    LET number == _extract_number(s)
        delta  == IF number = None THEN OrDefault(lbc, 10) ELSE Get(number)
    IN  IF Contains(s, "set") /\ Contains(s, "to") /\ number # None
        THEN Some([Intent("set_brightness", s) EXCEPT !.value = number])
        ELSE IF AnyIn(s, {"increase brightness", "raise brightness",
                          "more brightness", "bit brighter",
                          "little brighter", "brighter"})
        THEN Some([Intent("change_brightness", s) EXCEPT !.delta = Some(Abs(delta))])
        ELSE IF AnyIn(s, {"decrease brightness", "lower brightness",
                          "reduce brightness", "dim it", "bit darker",
                          "little darker", "darker"})
        THEN Some([Intent("change_brightness", s) EXCEPT !.delta = Some(-Abs(delta))])
        ELSE None

\* volume domain (ai_core.py 271-326); None when no rule of it returns
VolumeRules(s, lvc) ==
    LET number == _extract_number(s)
        delta  == IF number = None THEN OrDefault(lvc, 5) ELSE Get(number)
    IN  IF Contains(s, "mute")
        THEN Some([Intent("set_volume", s) EXCEPT !.value = Some(0)])
        ELSE IF Contains(s, "set") /\ Contains(s, "to") /\ number # None
        THEN Some([Intent("set_volume", s) EXCEPT !.value = number])
        ELSE IF AnyIn(s, {"increase volume", "raise volume", "turn it up",
                          "bit louder", "little louder", "louder"})
        THEN Some([Intent("change_volume", s) EXCEPT !.delta = Some(Abs(delta))])
        ELSE IF AnyIn(s, {"decrease volume", "lower volume", "turn it down",
                          "bit quieter", "little quieter", "quieter"})
        THEN Some([Intent("change_volume", s) EXCEPT !.delta = Some(-Abs(delta))])
        ELSE None

\* clipboard, screenshot, timers and alarms, fallback (ai_core.py 328-361)
UtilityRules(s) ==
    LET td         == _extract_time_duration(s)
        time_str   == td[1]
        duration_s == td[2]
    IN  IF Contains(s, "clipboard")
           /\ (Contains(s, "show") \/ Contains(s, "read") \/ Contains(s, "what is"))
        THEN Intent("clipboard_read", s)
        ELSE IF AnyIn(s, {"screenshot", "capture screen", "print screen",
                          "take a picture"})
        THEN Intent("take_screenshot", s)
        ELSE IF AnyIn(s, {"set a timer", "start a timer", "timer for"})
                /\ duration_s # None
        THEN [Intent("set_timer", s) EXCEPT !.time_str = time_str,
                                            !.duration_s = duration_s]
        ELSE IF AnyIn(s, {"set an alarm", "alarm for"}) /\ time_str # None
        THEN [Intent("set_alarm", s) EXCEPT !.time_str = time_str]
        ELSE Intent("raw_command", s)

\* the pronoun rules without the `and state.last_app` test
PronounRulesUnguarded(s, la) ==
    IF AnyIn(s, {"close that", "close it"})
    THEN Some([Intent("close_app", s) EXCEPT !.app = la])
    ELSE IF AnyIn(s, {"open that", "open it again"})
    THEN Some([Intent("open_app", s) EXCEPT !.app = la])
    ELSE None

\* contextual pronouns (ai_core.py 174-190); None when neither rule returns
PronounRules(s, la) ==
    IF AnyIn(s, {"close that", "close it"}) /\ Truthy(la)
    THEN Some([Intent("close_app", s) EXCEPT !.app = la])
    ELSE IF AnyIn(s, {"open that", "open it again"}) /\ Truthy(la)
    THEN Some([Intent("open_app", s) EXCEPT !.app = la])
    ELSE None

\* app open/close/launch and close all (ai_core.py 192-216)
AppRules(s) ==
    LET app_name == _match_app_in_text(s)
    IN  IF AnyIn(s, {"open ", "launch ", "start ", "run "}) /\ Truthy(app_name)
        THEN Some([Intent("open_app", s) EXCEPT !.app = app_name])
        ELSE IF AnyIn(s, {"close ", "quit ", "exit ", "kill "}) /\ Truthy(app_name)
        THEN Some([Intent("close_app", s) EXCEPT !.app = app_name])
        ELSE IF AnyIn(s, {"close all", "kill all"})
        THEN Some(Intent("close_all", s))
        ELSE None

\* detect_intent_offline without the `if not text` test
detect_intent_offlineNoEmpty(s, la, lbc, lvc) ==
    LET pronoun == PronounRules(s, la)
        app     == AppRules(s)
        bright  == IF AnyIn(s, {"brightness", "brighter", "darker"})
                   THEN BrightnessRules(s, lbc) ELSE None
        volume  == IF AnyIn(s, {"volume", "sound", "louder", "quieter"})
                   THEN VolumeRules(s, lvc) ELSE None
    IN  IF pronoun # None THEN Get(pronoun)
        ELSE IF app # None THEN Get(app)
        ELSE IF bright # None THEN Get(bright)
        ELSE IF volume # None THEN Get(volume)
        ELSE UtilityRules(s)

\* detect_intent_offline with the volume domain before the brightness domain
detect_intent_offlineVolumeFirst(s, la, lbc, lvc) ==
    LET pronoun == PronounRules(s, la)
        app     == AppRules(s)
        bright  == IF AnyIn(s, {"brightness", "brighter", "darker"})
                   THEN BrightnessRules(s, lbc) ELSE None
        volume  == IF AnyIn(s, {"volume", "sound", "louder", "quieter"})
                   THEN VolumeRules(s, lvc) ELSE None
    IN  IF s = "" THEN Intent("empty", s)
        ELSE IF pronoun # None THEN Get(pronoun)
        ELSE IF app # None THEN Get(app)
        ELSE IF volume # None THEN Get(volume)
        ELSE IF bright # None THEN Get(bright)
        ELSE UtilityRules(s)

\* detect_intent_offline(text, state); of the state it reads last_app (la),
\* last_brightness_change (lbc) and last_volume_change (lvc)
detect_intent_offline(s, la, lbc, lvc) ==
    LET pronoun == PronounRules(s, la)
        app     == AppRules(s)
        bright  == IF AnyIn(s, {"brightness", "brighter", "darker"})
                   THEN BrightnessRules(s, lbc) ELSE None
        volume  == IF AnyIn(s, {"volume", "sound", "louder", "quieter"})
                   THEN VolumeRules(s, lvc) ELSE None
    IN  IF s = "" THEN Intent("empty", s)
        ELSE IF pronoun # None THEN Get(pronoun)
        ELSE IF app # None THEN Get(app)
        ELSE IF bright # None THEN Get(bright)
        ELSE IF volume # None THEN Get(volume)
        ELSE UtilityRules(s)

-----------------------------------------------------------------------------
(* state.py : AssistantState *)

\* default of remember_command's max_len parameter
max_len == 10

\* remember_command that records nothing
remember_commandSkips(rc, t) == rc

\* remember_command without the `if not text: return` test
remember_commandKeepsEmpty(rc, t) ==
    LET appended == Append(rc, Strip(t))
    IN  IF Len(appended) > max_len THEN Tail(appended) ELSE appended

\* remember_command without the eviction of the oldest entry
remember_commandNoEvict(rc, t) ==
    IF Strip(t) = "" THEN rc ELSE Append(rc, Strip(t))

\* AssistantState.remember_command(text) applied to the list rc
remember_command(rc, t) ==
    LET stripped == Strip(t)
        appended == Append(rc, stripped)
    IN  IF stripped = "" THEN rc
        ELSE IF Len(appended) > max_len THEN Tail(appended)
        ELSE appended

-----------------------------------------------------------------------------
(* handlers.py : what a handler returns; rc is the exit status of the OS    *)
(* command the handler runs (0 on success)                                  *)

\* one call of a handler: keyword (or parameter) name and argument
Call(fn, kw, arg) == [fn |-> fn, kw |-> kw, arg |-> arg]

\* "".join(ch for ch in s if ch.isdigit())
RECURSIVE OnlyDigits(_)
OnlyDigits(s) ==
    IF s = "" THEN ""
    ELSE (IF IsDigit(Head(s)) THEN Head(s) ELSE "") \o OnlyDigits(Tail(s))

\* APP_COMMANDS.get(app_name) or APP_COMMANDS.get(app_name.lower())
InAppCommands(app_name) ==
    \E k \in 1..Len(APP_COMMANDS_KEYS) :
        APP_COMMANDS_KEYS[k] \in {app_name, Lower(app_name)}

HandlerResult(call, rc) ==
    CASE call.fn \in {"handle_app_launch", "handle_app_closure"}
         /\ ~InAppCommands(Get(call.arg)) ->
            "Application '" \o Get(call.arg) \o "' not found in mappings."
      [] call.fn = "handle_app_launch" /\ InAppCommands(Get(call.arg)) ->
            IF rc = 0 THEN "Opening " \o Get(call.arg) \o "."
            ELSE "Executable not found for '" \o Get(call.arg) \o "'."
      [] call.fn = "handle_app_closure" /\ InAppCommands(Get(call.arg)) ->
            IF rc = 0 THEN "Closed " \o Get(call.arg) \o "."
            ELSE "Could not close " \o Get(call.arg) \o " (it may not be running)."
      [] call.fn = "handle_close_all" ->
            "Closed: <succeeded>. Not running: <failed>."
      [] call.fn = "handle_brightness" /\ call.kw = "absolute" ->
            IF rc = 0 THEN "Brightness set." ELSE "Brightness set failed: <err>"
      [] call.fn = "handle_brightness" /\ call.kw = "relative" ->
            IF rc = 0 THEN "Brightness adjusted."
            ELSE "Brightness adjust failed: <err>"
      [] call.fn = "handle_volume" /\ call.kw = "absolute" ->
            IF rc = 0 THEN "Volume set." ELSE "Volume set failed: <err>"
      [] call.fn = "handle_volume" /\ call.kw = "relative" ->
            IF rc = 0 THEN "Volume adjusted." ELSE "Volume adjust failed: <err>"
      [] call.fn = "handle_clipboard_read" ->
            IF rc = 0 THEN "<clipboard text>" ELSE "Clipboard read failed."
      [] call.fn = "handle_screenshot" ->
            IF rc = 0 THEN "<out_path>" ELSE "Screenshot failed: <err>"
      [] call.fn = "handle_set_timer" ->
            IF Get(call.arg) <= 0 THEN "Invalid timer length."
            ELSE IF rc = 0 THEN "Timer set for <seconds> seconds."
            ELSE "Failed to set timer: <err>"
      [] call.fn = "handle_set_alarm" ->
            \* a time_str naming minutes is handed to handle_set_timer
            IF Contains(Get(call.arg), "minute")
            THEN IF ToInt(OnlyDigits(Get(call.arg))) * 60 <= 0
                 THEN "Invalid timer length."
                 ELSE IF rc = 0 THEN "Timer set for <seconds> seconds."
                 ELSE "Failed to set timer: <err>"
            ELSE "Alarm scheduling not fully implemented. Please set timer instead."
      [] call.fn = "execute_command" ->
            IF rc = 0 THEN "Command executed successfully."
            ELSE "Command failed: <err>"

-----------------------------------------------------------------------------
(* ai_core.py : intent execution *)

\* Clamp without the upper limit: max(0, v)
ClampNoUpper(v) == IF v > 0 THEN v ELSE 0

\* max(0, min(100, v))
Clamp(v) ==
    LET m == IF v < 100 THEN v ELSE 100
    IN  IF m > 0 THEN m ELSE 0

\* an absolute set that keeps the remembered delta d
ResetDeltaKeeps(d) == d

\* state.last_brightness_change = 0 / state.last_volume_change = 0 after an
\* absolute set, whatever delta d was remembered
ResetDelta(d) == 0

\* an outcome in which one remembered delta serves brightness and volume
OutcomeOneDelta(la, lapp, lbc, lvc, rcmds, cs, res) ==
    [last_action |-> la, last_app |-> lapp,
     last_brightness_change |-> IF lvc # 0 THEN lvc ELSE lbc,
     last_volume_change |-> IF lvc # 0 THEN lvc ELSE lbc,
     recent_commands |-> rcmds, calls |-> cs, result |-> res]

\* the outcome of execute_intent: the new state fields, the handler calls
\* made and the returned string
Outcome(la, lapp, lbc, lvc, rcmds, cs, res) ==
    [last_action |-> la, last_app |-> lapp, last_brightness_change |-> lbc,
     last_volume_change |-> lvc, recent_commands |-> rcmds,
     calls |-> cs, result |-> res]

\* _exec_raw_command(cmd_text): the calls made and the string returned;
\* shlex.split is whitespace splitting for texts without quotes and
\* backslashes, and the fallback split() for an unbalanced quote
_exec_raw_command(cmd_text, rc) ==
    IF cmd_text = "" THEN [calls |-> <<>>, result |-> "No command provided."]
    ELSE LET call == Call("execute_command", "command_tokens",
                          Some(Split(cmd_text)))
         IN  [calls |-> <<call>>, result |-> HandlerResult(call, rc)]

\* execute_intent(intent, state) on the state (la, lapp, lbc, lvc, rcmds)
execute_intent(i, la, lapp, lbc, lvc, rcmds, rc) ==
    LET itype == i.type
        raw   == i.raw
        rem   == remember_command(rcmds, raw)
        Ret(call, nla, nlapp, nlbc, nlvc) ==
            Outcome(nla, nlapp, nlbc, nlvc, rem, <<call>>,
                    HandlerResult(call, rc))
    IN  IF itype = "open_app" /\ Truthy(i.app)
        THEN Ret(Call("handle_app_launch", "app_name", i.app),
                 Some("open_app"), i.app, lbc, lvc)
        ELSE IF itype = "close_app" /\ Truthy(i.app)
        THEN Ret(Call("handle_app_closure", "app_name", i.app),
                 Some("close_app"), i.app, lbc, lvc)
        ELSE IF itype = "close_all"
        THEN Ret(Call("handle_close_all", "", None),
                 Some("close_all"), lapp, lbc, lvc)
        ELSE IF itype = "set_brightness" /\ i.value # None
        THEN Ret(Call("handle_brightness", "absolute", Some(Clamp(Get(i.value)))),
                 Some("set_brightness"), lapp, ResetDelta(lbc), lvc)
        ELSE IF itype = "change_brightness" /\ i.delta # None
        THEN Ret(Call("handle_brightness", "relative", i.delta),
                 Some("change_brightness"), lapp, Get(i.delta), lvc)
        ELSE IF itype = "set_volume" /\ i.value # None
        THEN Ret(Call("handle_volume", "absolute", Some(Clamp(Get(i.value)))),
                 Some("set_volume"), lapp, lbc, ResetDelta(lvc))
        ELSE IF itype = "change_volume" /\ i.delta # None
        THEN Ret(Call("handle_volume", "relative", i.delta),
                 Some("change_volume"), lapp, lbc, Get(i.delta))
        ELSE IF itype = "clipboard_read"
        THEN Ret(Call("handle_clipboard_read", "", None),
                 Some("clipboard_read"), lapp, lbc, lvc)
        ELSE IF itype = "take_screenshot"
        THEN Ret(Call("handle_screenshot", "", None),
                 Some("take_screenshot"), lapp, lbc, lvc)
        ELSE IF itype = "set_timer" /\ i.duration_s # None
        THEN Ret(Call("handle_set_timer", "seconds", i.duration_s),
                 Some("set_timer"), lapp, lbc, lvc)
        ELSE IF itype = "set_alarm" /\ i.time_str # None
        THEN Ret(Call("handle_set_alarm", "time_str", i.time_str),
                 Some("set_alarm"), lapp, lbc, lvc)
        ELSE IF itype = "raw_command"
        THEN LET r == _exec_raw_command(raw, rc)
             IN  Outcome(Some("raw_command"), lapp, lbc, lvc, rem,
                         r.calls, r.result)
        ELSE IF itype = "empty"
        THEN Outcome(la, lapp, lbc, lvc, rem, <<>>, "No speech detected.")
        ELSE Outcome(la, lapp, lbc, lvc, rem, <<>>,
                     "I couldn't understand that (offline).")

-----------------------------------------------------------------------------
(* difflib, as used by yochan._match_app_fuzzy.  A ratio 2.0*M/T is kept as *)
(* the pair <<2*M, T>> and ratios are compared by cross-multiplication,     *)
(* which orders them as the floating-point quotients are ordered.           *)

\* r1 >= r2 for two ratios
RatioGE(r1, r2) == r1[1] * r2[2] >= r2[1] * r1[2]

\* the length of the longest common run of a[i..ahi-1] and b[j..bhi-1]
RECURSIVE RunLen(_, _, _, _, _, _)
RunLen(a, b, i, j, ahi, bhi) ==
    IF i < ahi /\ j < bhi /\ Char(a, i) = Char(b, j)
    THEN 1 + RunLen(a, b, i + 1, j + 1, ahi, bhi)
    ELSE 0

\* the only element of a one-element set; Only({f(v) : v \in {e}}) is f(e)
\* with e computed once
Only(S) == CHOOSE x \in S : TRUE

\* SequenceMatcher.find_longest_match(alo, ahi, blo, bhi) without junk:
\* <<i, j, k>>, the longest block, the one starting earliest in a and, of
\* those, earliest in b; positions from 1, ahi and bhi excluded
find_longest_match(a, b, alo, ahi, blo, bhi) ==
    Only({ Only({ <<p[1], p[2], lens[p]>> :
                  p \in { q \in DOMAIN lens :
                            \A r \in DOMAIN lens :
                                \/ lens[q] > lens[r]
                                \/ /\ lens[q] = lens[r]
                                   /\ \/ q[1] < r[1]
                                      \/ q[1] = r[1] /\ q[2] <= r[2] } }) :
           lens \in { [p \in (alo..(ahi - 1)) \X (blo..(bhi - 1)) |->
                         RunLen(a, b, p[1], p[2], ahi, bhi)] } })

\* the number of matched characters: the sum of the sizes of
\* SequenceMatcher.get_matching_blocks()
RECURSIVE Matches(_, _, _, _, _, _)
Matches(a, b, alo, ahi, blo, bhi) ==
    IF alo >= ahi \/ blo >= bhi THEN 0
    ELSE Only({ IF m[3] = 0 THEN 0
                ELSE m[3] + Matches(a, b, alo, m[1], blo, m[2])
                          + Matches(a, b, m[1] + m[3], ahi, m[2] + m[3], bhi) :
                m \in {find_longest_match(a, b, alo, ahi, blo, bhi)} })

\* _calculate_ratio(matches, length)
_calculate_ratio(matches, length) ==
    IF length > 0 THEN <<2 * matches, length>> ELSE <<1, 1>>

\* SequenceMatcher(None, a, b).ratio()
ratio(a, b) ==
    _calculate_ratio(Matches(a, b, 1, Len(a) + 1, 1, Len(b) + 1),
                     Len(a) + Len(b))

\* the number of positions before i of s that hold the character c
CountBefore(s, i, c) == Cardinality({k \in 1..(i - 1) : Char(s, k) = c})

\* SequenceMatcher(None, a, b).quick_ratio(): a character of a counts as
\* long as b has an occurrence of it left
quick_ratio(a, b) ==
    LET avail(i) == CountBefore(b, Len(b) + 1, Char(a, i))
                        - CountBefore(a, i, Char(a, i))
    IN  _calculate_ratio(Cardinality({i \in 1..Len(a) : avail(i) > 0}),
                         Len(a) + Len(b))

\* SequenceMatcher(None, a, b).real_quick_ratio()
real_quick_ratio(a, b) ==
    _calculate_ratio(IF Len(a) < Len(b) THEN Len(a) ELSE Len(b),
                     Len(a) + Len(b))

\* ord(c), up to an increasing renumbering: the position of c among the
\* characters of lexicon keys and transcripts by increasing code point
Ord(c) ==
    CHOOSE k \in 1..37 : Char(" '-0123456789abcdefghijklmnopqrstuvwxyz", k) = c

\* x < y for two Python strings
RECURSIVE StrLess(_, _)
StrLess(x, y) ==
    IF y = "" THEN FALSE
    ELSE IF x = "" THEN TRUE
    ELSE IF Char(x, 1) = Char(y, 1) THEN StrLess(Tail(x), Tail(y))
    ELSE Ord(Char(x, 1)) < Ord(Char(y, 1))

-----------------------------------------------------------------------------
(* yochan.py : the fuzzy resolver *)

\* FUZZY_THRESHOLD = float(os.getenv("FUZZY_THRESHOLD", "0.7")), as a ratio
FUZZY_THRESHOLD == <<7, 10>>

\* the keys of a lexicon given as the list of its items, in dict order
Keys(items) == [k \in 1..Len(items) |-> items[k][1]]

\* (score1, x1) > (score2, x2) as Python orders tuples
ScoredAbove(score1, x1, score2, x2) ==
    \/ ~ RatioGE(score2, score1)
    \/ RatioGE(score1, score2) /\ StrLess(x2, x1)

\* the (index, ratio) pairs get_close_matches collects in result: those of
\* the possibilities whose three ratios reach the cutoff
CloseMatches(word, possibilities, cutoff) ==
    { c \in { <<k, ratio(possibilities[k], word)>> :
                 k \in { n \in 1..Len(possibilities) :
                           /\ RatioGE(real_quick_ratio(possibilities[n], word),
                                      cutoff)
                           /\ RatioGE(quick_ratio(possibilities[n], word),
                                      cutoff) } } :
        RatioGE(c[2], cutoff) }

\* heapq.nlargest(1, result): the largest (ratio, possibility) pair
Largest(scored, possibilities) ==
    CHOOSE c \in scored :
        \A d \in scored \ {c} :
            ScoredAbove(c[2], possibilities[c[1]], d[2], possibilities[d[1]])

\* difflib.get_close_matches(word, possibilities, n=1, cutoff)
get_close_matches(word, possibilities, cutoff) ==
    Only({ IF scored = {} THEN <<>>
           ELSE <<possibilities[Largest(scored, possibilities)[1]]>> :
           scored \in {CloseMatches(word, possibilities, cutoff)} })

\* _match_app_fuzzy(cleaned_command) over the lexicon keys
_match_app_fuzzy(cleaned_command, keys) ==
    IF cleaned_command = "" THEN None
    ELSE Only({ IF matches # <<>> THEN Some(matches[1]) ELSE None :
                matches \in {get_close_matches(cleaned_command, keys,
                                               FUZZY_THRESHOLD)} })

-----------------------------------------------------------------------------
(* config.py : the power commands *)

\* a Python str and a Python list, told apart as shlex.split tells them apart
Str(s) == [str |-> s]
List(l) == [list |-> l]

\* shlex.split(x): the tokens of a str without quotes; for a list, None: the
\* lexer calls read() on it and AttributeError is raised
shlex_split(x) == IF "str" \in DOMAIN x THEN Some(Split(x.str)) ELSE None

\* _split_cmd(cmd_str, fallback): a list in every case
_split_cmd(cmd_str, fallback) ==
    LET stripped == Strip(IF cmd_str = None THEN "" ELSE Get(cmd_str))
    IN  IF stripped = "" THEN List(fallback) ELSE List(Split(stripped))

\* _default_logout_cmd() for the desktop named by the environment e
_default_logout_cmd(e) ==
    LET de == Lower(e.XDG_CURRENT_DESKTOP)
    IN  IF Contains(de, "xfce") THEN "xfce4-session-logout --logout --fast"
        ELSE IF Contains(de, "cinnamon")
        THEN "cinnamon-session-quit --logout --no-prompt"
        ELSE IF Contains(de, "gnome")
        THEN "gnome-session-quit --logout --no-prompt"
        ELSE ""

SHUTDOWN_CMD(e) == _split_cmd(e.SHUTDOWN_COMMAND, <<"systemctl", "poweroff">>)
REBOOT_CMD(e) == _split_cmd(e.REBOOT_COMMAND, <<"systemctl", "reboot">>)
SUSPEND_CMD(e) == _split_cmd(e.SUSPEND_COMMAND, <<"systemctl", "suspend">>)
LOGOUT_CMD(e) ==
    _split_cmd(IF e.LOGOUT_COMMAND # None THEN e.LOGOUT_COMMAND
               ELSE Some(_default_logout_cmd(e)), <<>>)

-----------------------------------------------------------------------------
(* yochan.py : what a command does.  A result holds the string returned,    *)
(* the calls made in order and, when an exception leaves the function, its  *)
(* name in place of the string.                                             *)

Returned(response, cs) ==
    [response |-> Some(response), calls |-> cs, raised |-> None]

Raised(exception, cs) ==
    [response |-> None, calls |-> cs, raised |-> Some(exception)]

\* show_result(message) after the calls cs: a notification, the message back
show_result(message, cs) ==
    Returned(message, Append(cs, Call("show_notification", "body",
                                      Some(message))))

\* show_result(f()) for the result r of f
Shown(r) ==
    IF r.raised # None THEN r ELSE show_result(Get(r.response), r.calls)

\* `if CMD: run_command(shlex.split(CMD), check=False)` after the result r
ThenRun(r, cmd) ==
    IF r.raised # None \/ cmd.list = <<>> THEN r
    ELSE IF shlex_split(cmd) = None THEN Raised("AttributeError", r.calls)
    ELSE [r EXCEPT !.calls = Append(@, Call("run_command", "cmd",
                                            shlex_split(cmd)))]

\* the result r with the string returned once r has run
ThenReturn(r, response) ==
    IF r.raised # None THEN r ELSE Returned(response, r.calls)

\* cleanup_old_listeners()
Cleaned == Returned("", <<Call("cleanup_old_listeners", "", None)>>)

handle_shutdown(e) ==
    ThenReturn(ThenRun(ThenRun(Cleaned, LOGOUT_CMD(e)), SHUTDOWN_CMD(e)),
               "Shutting down system.")

handle_restart(e) ==
    ThenReturn(ThenRun(Cleaned, REBOOT_CMD(e)), "Restarting system.")

handle_sleep(e) ==
    ThenReturn(ThenRun(Cleaned, SUSPEND_CMD(e)), "Suspending system.")

handle_logout(e) ==
    IF LOGOUT_CMD(e).list # <<>>
    THEN ThenReturn(ThenRun(Returned("", <<>>), LOGOUT_CMD(e)),
                    "Logging out of session.")
    ELSE Returned("Logout command is not configured for this desktop.", <<>>)

\* one call of a handler of handlers.py and the string it returns
Handled(call, rc) == Returned(HandlerResult(call, rc), <<call>>)

\* re.sub(r"^(alt1|alt2|...)\s*", "", s): the first alternative that starts
\* s is removed with the whitespace after it
StripLeading(s, alternatives) ==
    IF \E k \in 1..Len(alternatives) : StartsAt(s, 1, alternatives[k])
    THEN LET k == CHOOSE n \in 1..Len(alternatives) :
                     /\ StartsAt(s, 1, alternatives[n])
                     /\ \A m \in 1..(n - 1) : ~ StartsAt(s, 1, alternatives[m])
         IN  Slice(s, SkipSpaces(s, Len(alternatives[k]) + 1), Len(s))
    ELSE s

\* the first key of the lexicon, in dict order, that is part of the text or
\* has the text as a part; None without one
FirstIncluding(target, keys) ==
    IF \E k \in 1..Len(keys) :
           Contains(keys[k], target) \/ Contains(target, keys[k])
    THEN Some(keys[CHOOSE k \in 1..Len(keys) :
                 /\ Contains(keys[k], target) \/ Contains(target, keys[k])
                 /\ \A m \in 1..(k - 1) :
                       ~ (Contains(keys[m], target) \/ Contains(target, keys[m]))])
    ELSE None

\* key in APP_COMMANDS
IsKey(key, keys) == \E k \in 1..Len(keys) : keys[k] = key

\* yochan.handle_app_launch(app_name)
handle_app_launch(app_name, keys, rc) ==
    IF app_name = "" THEN Returned("No application specified.", <<>>)
    ELSE LET fuzzy == _match_app_fuzzy(app_name, keys)
             key   == IF IsKey(app_name, keys) THEN app_name
                      ELSE IF Truthy(fuzzy) THEN Get(fuzzy)
                      ELSE app_name
         IN  Handled(Call("handle_app_launch", "app_name", Some(key)), rc)

\* yochan.handle_generic_launch(cleaned_command): rc 0 when Popen starts the
\* executable, FileNotFoundError otherwise; the response None for None
handle_generic_launch(cleaned_command, rc) ==
    LET tokens == Split(cleaned_command)
        exe    == Lower(tokens[1])
        nothing == [response |-> None, calls |-> <<>>, raised |-> None]
    IN  IF cleaned_command = "" \/ tokens = <<>> THEN nothing
        ELSE IF exe \in {"the", "a", "an", "it", "this"} THEN nothing
        ELSE IF rc = 0
        THEN Returned("Trying to open " \o exe \o ".",
                      <<Call("Popen", "args", Some(tokens))>>)
        ELSE [nothing EXCEPT !.calls = <<Call("Popen", "args", Some(tokens))>>]

\* yochan.handle_app_closure(command_text)
handle_app_closure(command_text, keys, rc) ==
    LET app_target == Strip(StripLeading(command_text,
                               <<"close", "quit", "terminate", "end">>))
        app_name   == IF IsKey(app_target, keys) THEN Some(app_target)
                      ELSE FirstIncluding(app_target, keys)
    IN  IF Truthy(app_name)
        THEN Handled(Call("handle_app_closure", "app_name", app_name), rc)
        ELSE Returned("Error: Application name was not recognized for closure.",
                      <<>>)

\* _get_percentage(command_text)
_get_percentage(command_text) ==
    LET m == _extract_number(command_text)
    IN  IF m # None THEN Some(Clamp(Get(m))) ELSE None

\* `percent or default`
PercentOr(percent, default) ==
    IF percent # None /\ Get(percent) # 0 THEN Get(percent) ELSE default

\* volume_cmd(command_text)
volume_cmd(command_text, rc) ==
    LET percent == _get_percentage(command_text)
    IN  IF percent # None /\ AnyIn(command_text, {"set", "to"})
        THEN Handled(Call("handle_volume", "absolute", percent), rc)
        ELSE IF AnyIn(command_text, {"up", "increase", "raise", "louder"})
        THEN Handled(Call("handle_volume", "relative",
                          Some(PercentOr(percent, 5))), rc)
        ELSE IF AnyIn(command_text, {"down", "decrease", "lower", "quieter"})
        THEN Handled(Call("handle_volume", "relative",
                          Some(- PercentOr(percent, 5))), rc)
        ELSE Returned("Volume command failed. Specify a percentage (e.g., "
                      \o "'set volume to 50') or say 'increase volume'.", <<>>)

\* brightness_cmd(command_text)
brightness_cmd(command_text, rc) ==
    LET percent == _get_percentage(command_text)
    IN  IF percent # None /\ AnyIn(command_text, {"set", "to"})
        THEN Handled(Call("handle_brightness", "absolute", percent), rc)
        ELSE IF AnyIn(command_text, {"up", "increase", "raise", "brighter"})
        THEN Handled(Call("handle_brightness", "relative",
                          Some(PercentOr(percent, 10))), rc)
        ELSE IF AnyIn(command_text,
                      {"down", "decrease", "lower", "darker", "dim"})
        THEN Handled(Call("handle_brightness", "relative",
                          Some(- PercentOr(percent, 10))), rc)
        ELSE Returned("Brightness command failed. Specify a percentage or "
                      \o "say 'increase brightness'.", <<>>)

\* the response of step 7 and after: the generic launch, the alarm hint,
\* the apology
Fallback(command_text, cleaned_command, rc) ==
    LET generic == handle_generic_launch(cleaned_command, rc)
        clocks  == handle_generic_launch("gnome-clocks", rc).calls
                   \o handle_generic_launch("xfce4-datetime-settings", rc).calls
    IN  IF AnyIn(command_text, {"brightness", "volume", "sleep", "shutdown",
                                "reboot", "logout", "die"})
        THEN show_result("Control command failed during execution. Check "
                         \o "terminal logs for detailed error.", <<>>)
        ELSE IF Truthy(generic.response) THEN Shown(generic)
        ELSE IF Contains(command_text, "alarm")
        THEN show_result("I heard a request for an alarm but cannot schedule "
                         \o "it reliably; I tried to open your desktop clock app.",
                         generic.calls \o clocks)
        ELSE show_result("Sorry, I don't understand '" \o cleaned_command
                         \o "' yet.", generic.calls)

\* step 6 and after: close, then launch by exact key, by inclusion, by
\* fuzzy match
Applications(command_text, keys, rc) ==
    LET cleaned_command ==
            Strip(StripLeading(command_text,
                     <<"open", "launch", "start", "run", "the", "a", "i">>))
        included  == FirstIncluding(cleaned_command, keys)
        fuzzy_key == _match_app_fuzzy(cleaned_command, keys)
    IN  IF AnyIn(command_text, {"close", "quit", "exit", "terminate", "end"})
        THEN Shown(handle_app_closure(command_text, keys, rc))
        ELSE IF IsKey(cleaned_command, keys)
        THEN Shown(handle_app_launch(cleaned_command, keys, rc))
        ELSE IF included # None
        THEN Shown(handle_app_launch(Get(included), keys, rc))
        ELSE IF Truthy(fuzzy_key)
        THEN Shown(handle_app_launch(Get(fuzzy_key), keys, rc))
        ELSE Fallback(command_text, cleaned_command, rc)

\* yochan.execute_command(command_text) in the environment e, with the
\* lexicon keys, rc the exit status met by the OS command it runs
execute_command(text_in, e, keys, rc) ==
    LET command_text == Lower(Strip(text_in))
    IN  IF text_in = "" THEN show_result("No command provided.", <<>>)
        ELSE IF AnyIn(command_text, {"die", "stop listening"})
        THEN Returned("QUIT_LISTENER", <<>>)
        ELSE IF AnyIn(command_text, {"shutdown", "turn off"})
        THEN Shown(handle_shutdown(e))
        ELSE IF AnyIn(command_text, {"restart", "reboot"})
        THEN Shown(handle_restart(e))
        ELSE IF AnyIn(command_text, {"sleep", "suspend"})
        THEN Shown(handle_sleep(e))
        ELSE IF AnyIn(command_text, {"logout", "log out", "log off"})
        THEN Shown(handle_logout(e))
        ELSE IF Contains(command_text, "volume")
        THEN Shown(volume_cmd(command_text, rc))
        ELSE IF Contains(command_text, "brightness")
        THEN Shown(brightness_cmd(command_text, rc))
        ELSE IF /\ Contains(command_text, "clipboard")
                /\ AnyIn(command_text, {"show", "read", "what is"})
        THEN Shown(Handled(Call("handle_clipboard_read", "", None), rc))
        ELSE IF AnyIn(command_text, {"close all", "kill all"})
        THEN Shown(Handled(Call("handle_close_all", "", None), rc))
        ELSE Applications(command_text, keys, rc)

-----------------------------------------------------------------------------
(* Inputs *)

\* exit status of the OS command run by a handler
ExitCodes == {0, 1}

\* raw utterances handed to handle_voice_input by the listener
Utterances ==
    { "", ",", "Please", "yo, chan",
      "brighter", "increase brightness by 20", "darker",
      "set brightness to 150", "set brightness to 40",
      "Open VS Code", "open firefox",
      "close that", "close it", "open that", "open it again",
      "close that firefox", "close all",
      "mute", "mute the sound", "set sound to 150", "louder", "quieter",
      "set volume to 60",
      "take a screenshot", "show clipboard",
      "set a timer for 10 minutes", "set an alarm for 7 30 am",
      "set a timer for 0 minutes",
      "mail reader", "hello there" }

\* texts handed to detect_intent_offline directly
NormTexts ==
    { "", "mute", "close that", "open it again", "close it firefox",
      "open vs code", "launch terminal emulator", "set brightness to 150",
      "set volume to 150", "brighter", "hello there",
      "mute and set volume to 30", "set volume to 30 louder",
      "brighter and louder", "set brightness to 40 and mute volume" }

\* intents handed to execute_intent directly
DirectIntents ==
    { [Intent("set_volume", "mute") EXCEPT !.value = Some(0)],
      [Intent("set_volume", "set volume to 150") EXCEPT !.value = Some(150)],
      [Intent("set_brightness", "set brightness to 150") EXCEPT !.value = Some(150)],
      [Intent("set_brightness", "brightness -5") EXCEPT !.value = Some(-5)],
      [Intent("change_volume", "quieter") EXCEPT !.delta = Some(-5)],
      [Intent("open_app", "open code") EXCEPT !.app = Some("code")],
      Intent("raw_command", "hello there"),
      Intent("empty", "") }

\* utterances of one session about brightness and volume, handed to
\* handle_voice_input one after the other
SessionUtterances ==
    { "increase brightness by 20", "set brightness to 40", "brighter",
      "louder by 20", "set sound to 60", "quieter" }

\* utterances recorded in the command history; "uh" normalizes to the empty
\* text and is recorded as nothing
HistoryUtterances == { "mute", " Hello there ", "uh" }

\* normalize_text of every utterance
normalized ==
    [u \in Utterances \cup SessionUtterances \cup HistoryUtterances |->
        normalize_text(u)]

-----------------------------------------------------------------------------
(* Operations *)

\* STATE = AssistantState()
InitState ==
    /\ last_action = None
    /\ last_app = None
    /\ last_brightness_change = 0
    /\ last_volume_change = 0
    /\ recent_commands = <<>>

\* the listener process has not been started
NotStarted ==
    /\ pc = "not_started"
    /\ env = None
    /\ keyword_paths = None
    /\ porcupine = "None"
    /\ recorder = "None"
    /\ keyword_index = None
    /\ raised = None
    /\ exit_code = None

\* apps.py has been imported and no user file was found
Imported ==
    /\ app_commands = APP_COMMANDS
    /\ user_file = None
    /\ match = None

Init ==
    /\ InitState
    /\ op = "init"
    /\ utterance = None
    /\ text = None
    /\ intent = None
    /\ calls = <<>>
    /\ result = None
    /\ steps = 0
    /\ norm1 = None
    /\ norm2 = None
    /\ NotStarted
    /\ Imported

\* the assignments of execute_intent without the one to state.last_app
AssignForgetsApp(out) ==
    /\ last_action' = out.last_action
    /\ last_app' = last_app
    /\ last_brightness_change' = out.last_brightness_change
    /\ last_volume_change' = out.last_volume_change
    /\ recent_commands' = out.recent_commands
    /\ calls' = out.calls
    /\ result' = Some(out.result)

\* the assignments of execute_intent when the empty intent is recorded as
\* an action too
AssignRecordsEmpty(out) ==
    /\ last_action' = IF out.calls = <<>> /\ out.result = "No speech detected."
                      THEN Some("empty") ELSE out.last_action
    /\ last_app' = out.last_app
    /\ last_brightness_change' = out.last_brightness_change
    /\ last_volume_change' = out.last_volume_change
    /\ recent_commands' = out.recent_commands
    /\ calls' = out.calls
    /\ result' = Some(out.result)

\* assign the state fields from an outcome of execute_intent
Assign(out) ==
    /\ last_action' = out.last_action
    /\ last_app' = out.last_app
    /\ last_brightness_change' = out.last_brightness_change
    /\ last_volume_change' = out.last_volume_change
    /\ recent_commands' = out.recent_commands
    /\ calls' = out.calls
    /\ result' = Some(out.result)

\* detect_intent_offline that records the detected type in the state
DetectIntentWrites(t) ==
    /\ steps < MaxSteps
    /\ steps' = steps + 1
    /\ op' = "detect_intent_offline"
    /\ utterance' = None
    /\ text' = Some(t)
    /\ intent' = Some(detect_intent_offline(t, last_app, last_brightness_change,
                                            last_volume_change))
    /\ calls' = <<>>
    /\ result' = None
    /\ last_action' = Some(Get(intent').type)
    /\ UNCHANGED <<last_app, last_brightness_change,
                   last_volume_change, recent_commands, norm1, norm2,
                   listener, lexicon>>

\* a direct call detect_intent_offline(t, STATE)
DetectIntent(t) ==
    /\ steps < MaxSteps
    /\ steps' = steps + 1
    /\ op' = "detect_intent_offline"
    /\ utterance' = None
    /\ text' = Some(t)
    /\ intent' = Some(detect_intent_offline(t, last_app, last_brightness_change,
                                            last_volume_change))
    /\ calls' = <<>>
    /\ result' = None
    /\ UNCHANGED <<last_action, last_app, last_brightness_change,
                   last_volume_change, recent_commands, norm1, norm2,
                   listener, lexicon>>

\* a direct call execute_intent(i, STATE)
ExecuteIntent(i, rc) ==
    /\ steps < MaxSteps
    /\ steps' = steps + 1
    /\ op' = "execute_intent"
    /\ utterance' = None
    /\ text' = None
    /\ intent' = Some(i)
    /\ Assign(execute_intent(i, last_action, last_app, last_brightness_change,
                             last_volume_change, recent_commands, rc))
    /\ UNCHANGED <<norm1, norm2, listener, lexicon>>

\* handle_voice_input(u), rc the exit status met by the handler it calls
handle_voice_input(u, rc) ==
    /\ steps' = steps + 1
    /\ op' = "handle_voice_input"
    /\ utterance' = Some(u)
    /\ IF u = ""
       THEN /\ text' = None
            /\ intent' = None
            /\ calls' = <<>>
            /\ result' = Some("No speech detected.")
            /\ UNCHANGED <<last_action, last_app, last_brightness_change,
                           last_volume_change, recent_commands>>
       ELSE LET t == normalized[u]
                i == detect_intent_offline(t, last_app, last_brightness_change,
                                           last_volume_change)
            IN  /\ text' = Some(t)
                /\ intent' = Some(i)
                /\ Assign(execute_intent(i, last_action, last_app,
                                         last_brightness_change,
                                         last_volume_change, recent_commands, rc))
    /\ UNCHANGED <<norm1, norm2, listener, lexicon>>

\* handle_voice_input(u) as one of the invocations of Spec
HandleVoiceInput(u, rc) ==
    /\ steps < MaxSteps
    /\ handle_voice_input(u, rc)

Next ==
    \/ \E t \in NormTexts : DetectIntent(t)
    \/ \E i \in DirectIntents, rc \in ExitCodes : ExecuteIntent(i, rc)
    \/ \E u \in Utterances, rc \in ExitCodes : HandleVoiceInput(u, rc)

Spec == Init /\ [][Next]_vars

-----------------------------------------------------------------------------
(* One session: the listener hands utterance after utterance to            *)
(* handle_voice_input, all sharing the module-level STATE                  *)

\* one more utterance of the brightness / volume session
Session(u, rc) ==
    /\ steps < MaxSession
    /\ handle_voice_input(u, rc)

NextSession == \E u \in SessionUtterances, rc \in ExitCodes : Session(u, rc)

SpecSession == Init /\ [][NextSession]_vars

\* one more utterance recorded in the command history
Record(u, rc) ==
    /\ steps < MaxHistory
    /\ handle_voice_input(u, rc)

NextHistory == \E u \in HistoryUtterances : Record(u, 0)

SpecHistory == Init /\ [][NextHistory]_vars

-----------------------------------------------------------------------------
(* yochan_listener.py : start of the listener process *)

\* what config.py and the file system give the listener: the three settings
\* it requires, what their paths lead to, and the settings of the power
\* commands (unset)
Environments ==
    { [MODEL_PATH |-> m, model_is_dir |-> d, ACCESS_KEY |-> a,
       WAKE_WORD_PATH |-> w, wake_is |-> k, ppn_files |-> n,
       XDG_CURRENT_DESKTOP |-> x, LOGOUT_COMMAND |-> None,
       SHUTDOWN_COMMAND |-> None, REBOOT_COMMAND |-> None,
       SUSPEND_COMMAND |-> None] :
        m \in {None, Some("models/vosk")}, d \in BOOLEAN,
        a \in {None, Some("key")},
        w \in {None, Some("porcupine_models")},
        k \in {"file", "dir", "missing"}, n \in 0..MaxPpn,
        x \in {"", "XFCE"} }

\* the parameters of handlers.show_notification(summary, body="")
show_notification_params == {"summary", "body"}

\* a call of show_notification with these keyword arguments raises TypeError
NotificationRaises(keywords) == ~ (keywords \subseteq show_notification_params)

\* sys.exit(1)
Exit ==
    /\ pc' = "exited"
    /\ exit_code' = Some("exit 1")

\* nothing has been handed to the pipeline of ai_core
InitPipeline ==
    /\ InitState
    /\ op = "init"
    /\ utterance = None
    /\ text = None
    /\ intent = None
    /\ calls = <<>>
    /\ result = None
    /\ steps = 0
    /\ norm1 = None
    /\ norm2 = None

\* the listener process starts: yochan_listener.py is being imported
InitStartup ==
    /\ InitPipeline
    /\ Imported
    /\ pc = "import"
    /\ env \in Environments
    /\ (env.MODEL_PATH = None => ~ env.model_is_dir)
    /\ (env.WAKE_WORD_PATH = None => env.wake_is = "missing")
    /\ (env.wake_is # "dir" => env.ppn_files = 0)
    /\ keyword_paths = None
    /\ porcupine = "None"
    /\ recorder = "None"
    /\ keyword_index = None
    /\ raised = None
    /\ exit_code = None

pipeline == <<last_action, last_app, last_brightness_change,
              last_volume_change, recent_commands, text, intent, norm1, norm2>>

\* lines 77-90: the three settings are present and the model path is a
\* directory, or the process exits
ValidateConfig ==
    /\ pc = "import"
    /\ op' = "validate"
    /\ IF /\ Truthy(env.MODEL_PATH)
          /\ Truthy(env.ACCESS_KEY)
          /\ Truthy(env.WAKE_WORD_PATH)
          /\ env.model_is_dir
       THEN pc' = "resolve" /\ exit_code' = exit_code
       ELSE Exit
    /\ UNCHANGED <<pipeline, utterance, calls, result, steps, env,
                   keyword_paths, porcupine, recorder, keyword_index, raised,
                   lexicon>>

\* KEYWORD_PATHS = _resolve_keyword_paths(WAKE_WORD_PATH): the number of
\* keyword files, or the process exits
ResolveKeywordPaths ==
    /\ pc = "resolve"
    /\ op' = "_resolve_keyword_paths"
    /\ IF env.wake_is = "file"
       THEN keyword_paths' = Some(1) /\ pc' = "load" /\ exit_code' = exit_code
       ELSE IF env.wake_is = "dir" /\ env.ppn_files > 0
       THEN /\ keyword_paths' = Some(env.ppn_files)
            /\ pc' = "load"
            /\ exit_code' = exit_code
       ELSE keyword_paths' = keyword_paths /\ Exit
    /\ UNCHANGED <<pipeline, utterance, calls, result, steps, env, porcupine,
                   recorder, keyword_index, raised, lexicon>>

\* VOSK_MODEL = Model(MODEL_PATH), or the process exits
LoadVoskModel(loaded) ==
    /\ pc = "load"
    /\ op' = "Model"
    /\ IF loaded THEN pc' = "run" /\ exit_code' = exit_code ELSE Exit
    /\ UNCHANGED <<pipeline, utterance, calls, result, steps, env,
                   keyword_paths, porcupine, recorder, keyword_index, raised,
                   lexicon>>

\* run_assistant_listener, lines 184-199: the engine is created, or the
\* process exits
CreatePorcupine(created) ==
    /\ pc = "run"
    /\ op' = "pvporcupine.create"
    /\ IF created
       THEN porcupine' = "created" /\ pc' = "recorder" /\ exit_code' = exit_code
       ELSE porcupine' = porcupine /\ Exit
    /\ UNCHANGED <<pipeline, utterance, calls, result, steps, env,
                   keyword_paths, recorder, keyword_index, raised, lexicon>>

\* run_assistant_listener, lines 201-220: the recorder is created and
\* started and the notification is shown; an exception of any of the three
\* calls is caught and the process exits.  The outcome tells how far the try
\* block of lines 202-212 gets before the notification.
StartRecorder(outcome) ==
    /\ pc = "recorder"
    /\ op' = "PvRecorder"
    /\ recorder' = CASE outcome = "PvRecorder raises" -> "None"
                     [] outcome = "start raises" -> "created"
                     [] outcome = "started" -> "running"
    /\ IF outcome = "started" /\ ~ NotificationRaises({"icon"})
       THEN pc' = "idle" /\ exit_code' = exit_code /\ raised' = raised
       ELSE /\ raised' = IF outcome = "started" THEN Some("TypeError")
                         ELSE Some("Exception")
            /\ Exit
    /\ UNCHANGED <<pipeline, utterance, calls, result, steps, env,
                   keyword_paths, porcupine, keyword_index, lexicon>>

NextStartup ==
    \/ ValidateConfig
    \/ ResolveKeywordPaths
    \/ \E loaded \in BOOLEAN : LoadVoskModel(loaded)
    \/ \E created \in BOOLEAN : CreatePorcupine(created)
    \/ \E outcome \in {"PvRecorder raises", "start raises", "started"} :
          StartRecorder(outcome)

SpecStartup == InitStartup /\ [][NextStartup]_vars

-----------------------------------------------------------------------------
(* yochan_listener.py : the wake-word loop of run_assistant_listener, lines *)
(* 222-269, from the state line 222 is written for: the engine created and  *)
(* the recorder started                                                     *)

\* what listen_for_command gets from the recognizer; "" also stands for an
\* STT error
Transcripts ==
    { "", "open firefox", "tigma", "volume up", "close all", "hello there",
      "die", "stop listening", "audience", "shutdown", "restart", "logout",
      "open" }

\* environments in which the listener starts
LoopEnvironments ==
    { e \in Environments :
        /\ Truthy(e.MODEL_PATH) /\ e.model_is_dir
        /\ Truthy(e.ACCESS_KEY)
        /\ Truthy(e.WAKE_WORD_PATH) /\ e.wake_is = "file" /\ e.ppn_files = 0 }

InitLoop ==
    /\ InitPipeline
    /\ Imported
    /\ pc = "idle"
    /\ env \in LoopEnvironments
    /\ keyword_paths = Some(1)
    /\ porcupine = "created"
    /\ recorder = "running"
    /\ keyword_index = None
    /\ raised = None
    /\ exit_code = None

recorder_stopSkipped(r) == r

\* line 234: recorder.stop()
recorder_stop(r) == "stopped"

recorder_startSkipped(r) == r

\* line 249: recorder.start()
recorder_start(r) == "running"

KeywordDetectedAlways(index) == TRUE

\* line 228: keyword_index >= 0
KeywordDetected(index) == index >= 0

\* lines 224-234: one frame is read and processed (index is the value of
\* porcupine.process(pcm), -1 for no keyword); on a keyword the
\* notification is shown and the recorder is stopped
Frame(index) ==
    /\ pc = "idle"
    /\ steps < MaxCommands
    /\ op' = "porcupine.process"
    /\ keyword_index' = Some(index)
    /\ IF KeywordDetected(index)
       THEN /\ calls' = <<Call("show_notification", "body",
                               Some("Listening... Speak your command now."))>>
            /\ recorder' = recorder_stop(recorder)
            /\ pc' = "capturing"
       ELSE UNCHANGED <<calls, recorder, pc>>
    /\ UNCHANGED <<pipeline, utterance, result, steps, env, keyword_paths,
                   porcupine, raised, exit_code, lexicon>>

\* line 235: user_command = listen_for_command()
Listen(transcript) ==
    /\ pc = "capturing"
    /\ op' = "listen_for_command"
    /\ utterance' = Some(Strip(transcript))
    /\ steps' = steps + 1
    /\ pc' = "interpreting"
    /\ UNCHANGED <<pipeline, calls, result, env, keyword_paths, porcupine,
                   recorder, keyword_index, raised, exit_code, lexicon>>

\* lines 237-249: the command is executed; the loop is left on the quit
\* response and on an exception, otherwise the recorder is started again
Interpret(rc) ==
    /\ pc = "interpreting"
    /\ op' = "execute_command"
    /\ IF Get(utterance) # ""
       THEN LET r == execute_command(Get(utterance), env, Keys(app_commands), rc)
            IN  /\ calls' = r.calls
                /\ result' = r.response
                /\ raised' = r.raised
                /\ IF r.raised # None \/ r.response = Some("QUIT_LISTENER")
                   THEN pc' = "cleanup" /\ recorder' = recorder
                   ELSE pc' = "idle" /\ recorder' = recorder_start(recorder)
       ELSE /\ calls' = <<Call("show_notification", "body",
                               Some("Command not detected. Please try again."))>>
            /\ result' = None
            /\ raised' = raised
            /\ pc' = "idle"
            /\ recorder' = recorder_start(recorder)
    /\ UNCHANGED <<pipeline, utterance, steps, env, keyword_paths, porcupine,
                   keyword_index, exit_code, lexicon>>

\* an exception arrives in recorder.read() or porcupine.process(pcm)
LoopRaises(exception) ==
    /\ pc = "idle"
    /\ op' = "raise"
    /\ raised' = Some(exception)
    /\ pc' = "cleanup"
    /\ UNCHANGED <<pipeline, utterance, calls, result, steps, env,
                   keyword_paths, porcupine, recorder, keyword_index,
                   exit_code, lexicon>>

\* the finally block, lines 253-269: delete() of what was created, then
\* SIGTERM to the process itself
Cleanup ==
    /\ pc = "cleanup"
    /\ op' = "finally"
    /\ recorder' = IF recorder # "None" THEN "deleted" ELSE recorder
    /\ porcupine' = IF porcupine # "None" THEN "deleted" ELSE porcupine
    /\ pc' = "exited"
    /\ exit_code' = Some("SIGTERM")
    /\ UNCHANGED <<pipeline, utterance, calls, result, steps, env,
                   keyword_paths, keyword_index, raised, lexicon>>

NextLoop ==
    \/ \E index \in {-1, 0} : Frame(index)
    \/ \E transcript \in Transcripts : Listen(transcript)
    \/ \E rc \in ExitCodes : Interpret(rc)
    \/ \E exception \in {"KeyboardInterrupt", "OSError"} : LoopRaises(exception)
    \/ Cleanup

SpecLoop == InitLoop /\ [][NextLoop]_vars

-----------------------------------------------------------------------------
(* yochan.py : the fuzzy resolver applied to one text *)

\* the text handed to _match_app_fuzzy: a name of the lexicon or a near miss
InitFuzzy ==
    /\ InitPipeline
    /\ NotStarted
    /\ app_commands = APP_COMMANDS
    /\ user_file = None
    /\ match \in { <<"word", p \o m \o q>> :
                      p \in {"", "f", "s", "t"},
                      m \in {"igma", "ode", "can", "vpn"},
                      q \in {"", "s", "x", " app"} }

\* match = _match_app_fuzzy(word)
MatchAppFuzzy ==
    /\ match[1] = "word"
    /\ op' = "_match_app_fuzzy"
    /\ match' = <<"match", match[2],
                  _match_app_fuzzy(match[2], Keys(app_commands))>>
    /\ UNCHANGED <<pipeline, utterance, calls, result, steps, listener,
                   app_commands, user_file>>

SpecFuzzy == InitFuzzy /\ [][MatchAppFuzzy]_vars

-----------------------------------------------------------------------------
(* apps.py : _load_user_overrides, run when apps.py is imported.  A dict is  *)
(* the sequence of its <<key, value>> items in insertion order.              *)

\* what yochan_apps.user.json holds: a JSON object given by its members in
\* the order of the file (a key may occur twice), or something else
UserFiles ==
    {None}
    \cup { Some([kind |-> k, members |-> <<>>]) :
              k \in {"invalid JSON", "array", "string", "number", "null",
                     "unreadable"} }
    \cup { Some([kind |-> "object", members |-> m]) :
              m \in UNION { [1..n -> {"firefox", "figma", "mytool"}
                                      \X {"firefox-esr", "mytool --run",
                                          "flatpak run org.mozilla.firefox"}] :
                               n \in 0..MaxMembers } }

HasKey(d, key) == \E n \in 1..Len(d) : d[n][1] = key

SetItemKeepsOld(d, key, value) ==
    IF HasKey(d, key) THEN d ELSE Append(d, <<key, value>>)

\* d[key] = value: the value of an existing key is replaced where it stands,
\* a new key goes to the end
SetItem(d, key, value) ==
    IF HasKey(d, key)
    THEN [n \in 1..Len(d) |-> IF d[n][1] = key THEN <<key, value>> ELSE d[n]]
    ELSE Append(d, <<key, value>>)

\* d.update(other), and the dict json.load builds from the members of an
\* object
RECURSIVE dict_update(_, _)
dict_update(d, other) ==
    IF other = <<>> THEN d
    ELSE dict_update(SetItem(d, Head(other)[1], Head(other)[2]), Tail(other))

json_load(members) == dict_update(<<>>, members)

InitLexicon ==
    /\ InitPipeline
    /\ NotStarted
    /\ app_commands = APP_COMMANDS
    /\ user_file \in UserFiles
    /\ match = None

\* _load_user_overrides(): an object is merged into APP_COMMANDS; a missing
\* file, a value that is not an object and any exception are passed over
LoadUserOverrides ==
    /\ op = "init"
    /\ op' = "_load_user_overrides"
    /\ IF user_file # None /\ Get(user_file).kind = "object"
       THEN app_commands' =
                dict_update(app_commands, json_load(Get(user_file).members))
       ELSE app_commands' = app_commands
    /\ UNCHANGED <<pipeline, utterance, calls, result, steps, listener,
                   user_file, match>>

SpecLexicon == InitLexicon /\ [][LoadUserOverrides]_vars

-----------------------------------------------------------------------------
(* Normalization applied twice to a raw text *)

InitNorm ==
    /\ InitState
    /\ op = "init"
    /\ utterance \in {Some(x) : x \in RawTexts}
    /\ text = None
    /\ intent = None
    /\ calls = <<>>
    /\ result = None
    /\ steps = 0
    /\ norm1 = None
    /\ norm2 = None
    /\ NotStarted
    /\ Imported

\* norm1 = normalize_text(utterance), then norm2 = normalize_text(norm1)
Normalize ==
    /\ steps < 2
    /\ steps' = steps + 1
    /\ op' = "normalize_text"
    /\ IF steps = 0
       THEN norm1' = Some(normalize_text(Get(utterance))) /\ norm2' = norm2
       ELSE norm2' = Some(normalize_text(Get(norm1))) /\ norm1' = norm1
    /\ UNCHANGED <<last_action, last_app, last_brightness_change,
                   last_volume_change, recent_commands, utterance, text,
                   intent, calls, result, listener, lexicon>>

NextNorm == Normalize

SpecNorm == InitNorm /\ [][NextNorm]_vars

-----------------------------------------------------------------------------
(* Properties *)

\* the functions that classify a text
ClassifyOps == {"detect_intent_offline", "handle_voice_input"}

\* the functions that dispatch an intent
DispatchOps == {"execute_intent", "handle_voice_input"}

IntentTypes ==
    { "empty", "raw_command", "open_app", "close_app", "close_all",
      "set_brightness", "change_brightness", "set_volume", "change_volume",
      "clipboard_read", "take_screenshot", "set_timer", "set_alarm" }

\* C1: normalize_text is idempotent: normalizing an already normalized text
\* gives the same text, for every raw text.
C1_NormalizeIdempotent == norm2 # None => norm2 = norm1

\* C2: every absolute value handed to handle_brightness / handle_volume lies
\* in 0..100, and a set_brightness / set_volume intent whose value is above
\* 100 reaches the handler as 100.
C2_AbsoluteClamped ==
    /\ \A k \in 1..Len(calls) :
          calls[k].kw = "absolute" =>
              Get(calls[k].arg) >= 0 /\ Get(calls[k].arg) <= 100
    /\ (/\ op \in DispatchOps
        /\ intent # None
        /\ Get(intent).type \in {"set_brightness", "set_volume"}
        /\ Get(Get(intent).value) > 100)
       => (Len(calls) = 1 /\ calls[1].kw = "absolute" /\ calls[1].arg = Some(100))

C2_Witness ==
    /\ op = "handle_voice_input"
    /\ utterance = Some("set brightness to 150")
    /\ Get(intent).value = Some(150)
    /\ calls = <<Call("handle_brightness", "absolute", Some(100))>>

\* C3: classifying "brighter" (no number) yields change_brightness whose
\* delta is the magnitude of the last dispatched brightness delta when that
\* is nonzero and the default 10 otherwise; dispatching it stores the delta
\* as last_brightness_change.
C3_BrighterReusesDelta ==
    [][ (op' \in ClassifyOps /\ text' = Some("brighter")) =>
           /\ Get(intent').type = "change_brightness"
           /\ Get(intent').delta =
                 Some(IF last_brightness_change # 0
                      THEN Abs(last_brightness_change) ELSE 10)
           /\ (op' = "handle_voice_input" =>
                  last_brightness_change' = Get(Get(intent').delta)) ]_vars

C3_Witness ==
    /\ op = "handle_voice_input"
    /\ recent_commands = <<"increase brightness by 20", "brighter">>
    /\ intent # None
    /\ Get(intent).delta = Some(20)
    /\ last_brightness_change = 20

ClosePronouns == {"close that", "close it"}
OpenPronouns == {"open that", "open it again"}

\* C4 (as claimed): a text containing "close that"/"close it" yields
\* close_app of last_app when last_app is set and no close_app at all when it
\* is unset; likewise open_app for "open that"/"open it again".
C4_PronounOriginal ==
    [][ (op' \in ClassifyOps /\ text' # None) =>
           LET t == Get(text')
               i == Get(intent')
           IN  /\ AnyIn(t, ClosePronouns) =>
                     IF Truthy(last_app)
                     THEN i.type = "close_app" /\ i.app = last_app
                     ELSE i.type # "close_app"
               /\ AnyIn(t, OpenPronouns) =>
                     IF Truthy(last_app)
                     THEN i.type = "open_app" /\ i.app = last_app
                     ELSE i.type # "open_app" ]_vars

\* C4 (amended): with last_app set, a text containing "close that"/"close it"
\* yields close_app of last_app, and a text containing "open that"/"open it
\* again" but no close pronoun yields open_app of last_app; with last_app
\* unset the pronoun rules are skipped: the bare pronoun phrase yields
\* raw_command, and an open_app / close_app can then only name a lexicon key
\* that occurs in the text.
C4_PronounAmended ==
    [][ (op' \in ClassifyOps /\ text' # None) =>
           LET t == Get(text')
               i == Get(intent')
           IN  /\ (AnyIn(t, ClosePronouns) /\ Truthy(last_app)) =>
                     (i.type = "close_app" /\ i.app = last_app)
               /\ (AnyIn(t, OpenPronouns) /\ ~AnyIn(t, ClosePronouns)
                   /\ Truthy(last_app)) =>
                     (i.type = "open_app" /\ i.app = last_app)
               /\ (AnyIn(t, ClosePronouns \cup OpenPronouns) /\ ~Truthy(last_app)) =>
                     /\ t \in ClosePronouns \cup OpenPronouns =>
                           i.type = "raw_command"
                     /\ i.type \in {"open_app", "close_app"} =>
                           \E k \in 1..Len(APP_COMMANDS_KEYS) :
                               /\ i.app = Some(APP_COMMANDS_KEYS[k])
                               /\ Contains(t, Lower(APP_COMMANDS_KEYS[k])) ]_vars

C4_Witness ==
    /\ op = "handle_voice_input"
    /\ utterance = Some("close that")
    /\ Get(intent).type = "close_app"
    /\ Get(intent).app = Some("vs code")

\* C5: when the app of an intent comes from the lexicon (no pronoun rule
\* applies), it is a key occurring in the text and no longer key occurs in
\* the text; "open vs code" resolves to "vs code", never "code".
C5_LongestKeyWins ==
    [][ (op' \in ClassifyOps /\ text' # None) =>
           LET t == Get(text')
               i == Get(intent')
           IN  /\ (/\ i.type \in {"open_app", "close_app"}
                   /\ ~(AnyIn(t, ClosePronouns \cup OpenPronouns)
                        /\ Truthy(last_app))) =>
                     /\ i.app # None
                     /\ Contains(t, Lower(Get(i.app)))
                     /\ \A k \in 1..Len(APP_COMMANDS_KEYS) :
                           Contains(t, Lower(APP_COMMANDS_KEYS[k])) =>
                               Len(APP_COMMANDS_KEYS[k]) <= Len(Get(i.app))
               /\ t = "open vs code" =>
                     (i.type = "open_app" /\ i.app = Some("vs code")) ]_vars

C5_Witness ==
    /\ op \in ClassifyOps
    /\ text = Some("open vs code")
    /\ Get(intent).type = "open_app"
    /\ Get(intent).app = Some("vs code")

\* C6: classifying the text "mute" yields set_volume with value 0, in every
\* context.
C6_MuteIsSetVolume ==
    (op \in ClassifyOps /\ text = Some("mute")) =>
        (Get(intent).type = "set_volume" /\ Get(intent).value = Some(0))

\* C7: detect_intent_offline always returns an Intent of one of the thirteen
\* types whose raw is the text it was given, and it leaves every field of the
\* context unchanged.
C7_DetectTotalAndPure ==
    [][ op' = "detect_intent_offline" =>
           /\ intent' # None
           /\ Get(intent').type \in IntentTypes
           /\ Get(intent').raw = Get(text')
           /\ ctx' = ctx ]_vars

C7_Witness ==
    /\ op = "detect_intent_offline"
    /\ last_app # None
    /\ recent_commands # <<>>
    /\ Get(intent).type = "raw_command"
    /\ Get(intent).raw = "hello there"

\* C8: dispatching an intent that is not empty makes exactly one handler
\* call, records the intent type as last_action and appends the intent's raw
\* text to recent_commands (evicting the oldest entry of a full history).
C8_OneCallOneMutation ==
    [][ (op' \in DispatchOps /\ intent' # None /\ Get(intent').type # "empty") =>
           /\ Len(calls') = 1
           /\ last_action' = Some(Get(intent').type)
           /\ recent_commands' =
                 Append(IF Len(recent_commands) < max_len
                        THEN recent_commands ELSE Tail(recent_commands),
                        Get(intent').raw) ]_vars

C8_Witness ==
    /\ op = "execute_intent"
    /\ Get(intent).type = "set_volume"
    /\ calls = <<Call("handle_volume", "absolute", Some(0))>>
    /\ last_action = Some("set_volume")
    /\ Len(recent_commands) = 2
    /\ recent_commands[2] = "mute"

\* C9: an utterance that is empty or normalizes to the empty text makes
\* handle_voice_input return "No speech detected." with no handler call and
\* with every field of the context unchanged.
C9_EmptyUtteranceNoEffect ==
    [][ (/\ op' = "handle_voice_input"
         /\ (Get(utterance') = "" \/ normalized[Get(utterance')] = "")) =>
           /\ result' = Some("No speech detected.")
           /\ calls' = <<>>
           /\ ctx' = ctx ]_vars

C9_Witness ==
    /\ op = "handle_voice_input"
    /\ utterance = Some("Please")
    /\ text = Some("")
    /\ result = Some("No speech detected.")
    /\ recent_commands # <<>>
    /\ last_action # None

\* C10: classifying the empty text yields an intent of type empty, whatever
\* the context holds.
C10_EmptyTextIsEmpty ==
    (op \in ClassifyOps /\ text = Some("")) => Get(intent).type = "empty"

C10_Witness ==
    /\ op = "detect_intent_offline"
    /\ text = Some("")
    /\ Get(intent).type = "empty"
    /\ last_app # None
    /\ recent_commands # <<>>

\* C11: dispatching set_brightness (set_volume) leaves last_brightness_change
\* (last_volume_change) at 0, and while that field is 0 a relative command
\* that speaks no number is classified with the default magnitude, 10 for
\* brightness and 5 for volume, whatever delta was remembered before the
\* absolute set.
C11_AbsoluteSetForgetsDelta ==
    [][ /\ (op' \in DispatchOps /\ intent' # None) =>
              /\ Get(intent').type = "set_brightness" =>
                     last_brightness_change' = 0
              /\ Get(intent').type = "set_volume" =>
                     last_volume_change' = 0
        /\ (/\ op' \in ClassifyOps
            /\ intent' # None
            /\ _extract_number(Get(text')) = None) =>
              /\ (/\ Get(intent').type = "change_brightness"
                  /\ last_brightness_change = 0) =>
                     Abs(Get(Get(intent').delta)) = 10
              /\ (/\ Get(intent').type = "change_volume"
                  /\ last_volume_change = 0) =>
                     Abs(Get(Get(intent').delta)) = 5 ]_vars

\* a delta of 20 is remembered, an absolute set follows, and "brighter" is
\* then dispatched with 10
C11_Witness ==
    /\ op = "handle_voice_input"
    /\ recent_commands =
          <<"increase brightness by 20", "set brightness to 40", "brighter">>
    /\ calls = <<Call("handle_brightness", "relative", Some(10))>>
    /\ last_brightness_change = 10

\* C12: dispatching open_app or close_app with app X records the intent type
\* as last_action and X as last_app, and a text containing "close that"
\* ("open that") classified right after it resolves to close_app (open_app)
\* with app X; dispatching close_all records last_action and leaves last_app
\* as it was.
C12_AppRemembered ==
    [][ /\ (op' \in DispatchOps /\ intent' # None) =>
              /\ (/\ Get(intent').type \in {"open_app", "close_app"}
                  /\ Truthy(Get(intent').app)) =>
                     /\ last_action' = Some(Get(intent').type)
                     /\ last_app' = Get(intent').app
              /\ Get(intent').type = "close_all" =>
                     /\ last_action' = Some("close_all")
                     /\ last_app' = last_app
        /\ (/\ op \in DispatchOps
            /\ intent # None
            /\ Get(intent).type \in {"open_app", "close_app"}
            /\ Truthy(Get(intent).app)
            /\ op' \in ClassifyOps
            /\ text' # None) =>
              /\ Contains(Get(text'), "close that") =>
                     /\ Get(intent').type = "close_app"
                     /\ Get(intent').app = Get(intent).app
              /\ (/\ Contains(Get(text'), "open that")
                  /\ ~ Contains(Get(text'), "close that")
                  /\ ~ Contains(Get(text'), "close it")) =>
                     /\ Get(intent').type = "open_app"
                     /\ Get(intent').app = Get(intent).app ]_vars

\* "open firefox" then "close that": firefox is closed
C12_Witness ==
    /\ op = "handle_voice_input"
    /\ recent_commands = <<"open firefox", "close that">>
    /\ Get(intent).type = "close_app"
    /\ calls = <<Call("handle_app_closure", "app_name", Some("firefox"))>>
    /\ last_action = Some("close_app")
    /\ last_app = Some("firefox")

\* C13: recent_commands never holds more than 10 entries and its entries are
\* not empty; each dispatched utterance whose raw text is not empty becomes
\* the newest entry behind the entries already held, in their order, the
\* oldest one being dropped when 10 are already held; an utterance whose raw
\* text is empty changes nothing.
C13_BoundedFifo ==
    [][ /\ Len(recent_commands') <= 10
        /\ \A k \in 1..Len(recent_commands') : recent_commands'[k] # ""
        /\ (op' \in DispatchOps /\ intent' # None) =>
              LET raw  == Get(intent').raw
                  n    == Len(recent_commands)
                  kept == IF n < 10 THEN n ELSE 9
              IN  IF raw = ""
                  THEN recent_commands' = recent_commands
                  ELSE /\ Len(recent_commands') = kept + 1
                       /\ recent_commands'[kept + 1] = raw
                       /\ \A k \in 1..kept :
                             recent_commands'[k] = recent_commands[n - kept + k]
       ]_vars

\* an eleventh text has been recorded: the first "mute" is gone
C13_Witness ==
    /\ steps = 12
    /\ Len(recent_commands) = 10
    /\ recent_commands[1] = "hello there"
    /\ recent_commands[9] = "hello there"
    /\ recent_commands[10] = "mute"
    /\ utterance = Some("uh")

\* C14: in the wake-word loop the recorder is stopped for as long as a
\* command is captured and interpreted, and it is running whenever the loop
\* waits for a wake word, also after a command that does not end the loop
C14_RecorderPausedWhileCapturing ==
    /\ pc \in {"capturing", "interpreting"} => recorder = "stopped"
    /\ pc = "idle" => recorder = "running"

\* a command has been captured and executed and the loop waits again
C14_Witness ==
    /\ pc = "idle"
    /\ op = "execute_command"
    /\ utterance = Some("open firefox")
    /\ result # None
    /\ recorder = "running"

\* C15: no exception leaves the interpretation of an utterance: after it a
\* response string has been returned unless the utterance was empty, and the
\* loop waits for the next wake word unless the response is the quit response
C15_BadUtteranceDoesNotEndLoop ==
    [][ pc = "interpreting" =>
          /\ raised' = None
          /\ Get(utterance) # "" => result' # None
          /\ result' # Some("QUIT_LISTENER") => pc' = "idle" ]_vars

\* C16: when the process has exited, no resource that was created is left
\* undeleted: neither the Porcupine engine nor the recorder
C16_ResourcesDeletedBeforeExit ==
    pc = "exited" =>
        /\ porcupine \in {"None", "deleted"}
        /\ recorder \in {"None", "deleted"}

\* C17: the loop passes from waiting to capturing only in a step in which
\* a keyword was detected (keyword_index >= 0); an utterance that contains
\* "die" or "stop listening" gets the response QUIT_LISTENER with no call
\* made, the loop goes to its cleanup, and from then on nothing is captured
C17_WakeAndQuit ==
    [][ /\ (pc = "idle" /\ pc' = "capturing") => Get(keyword_index') >= 0
        /\ ( /\ pc = "interpreting"
             /\ AnyIn(Lower(Get(utterance)), {"die", "stop listening"}) ) =>
                /\ result' = Some("QUIT_LISTENER")
                /\ calls' = <<>>
                /\ raised' = None
                /\ pc' = "cleanup"
        /\ pc \in {"cleanup", "exited"} =>
                /\ pc' \in {"cleanup", "exited"}
                /\ utterance' = utterance
                /\ steps' = steps ]_vars

\* the listener has exited on the utterance "stop listening"
C17_Witness ==
    /\ pc = "exited"
    /\ utterance = Some("stop listening")
    /\ result = Some("QUIT_LISTENER")
    /\ calls = <<>>
    /\ Get(keyword_index) >= 0
    /\ exit_code = Some("SIGTERM")

\* C18: run_assistant_listener exits at startup only when the engine or the
\* recorder failed to initialise: with the engine created and the recorder
\* started the process has not exited, and the step that starts the recorder
\* leads to the wake-word loop
C18_FatalOnlyOnEngineFailure ==
    /\ (porcupine = "created" /\ recorder = "running") => pc # "exited"
    /\ (op = "PvRecorder" /\ recorder = "running") => pc = "idle"

\* C19: the fuzzy resolver returns no match when the similarity of every
\* lexicon key to the text is below the threshold; otherwise it returns the
\* key of the highest similarity and, of the keys that share it, the one
\* that comes first in the lexicon
C19_BestKeyFirstOnTie ==
    match[1] = "match" =>
        LET keys == Keys(app_commands)
        IN  Only({ IF \A k \in DOMAIN scores :
                         ~ RatioGE(scores[k], FUZZY_THRESHOLD)
                   THEN match[3] = None
                   ELSE match[3] =
                          Some(keys[CHOOSE k \in DOMAIN scores :
                                      /\ \A n \in DOMAIN scores :
                                            RatioGE(scores[k], scores[n])
                                      /\ \A n \in 1..(k - 1) :
                                            ~ RatioGE(scores[n], scores[k])]) :
                   scores \in { [k \in 1..Len(keys) |->
                                   ratio(keys[k], match[2])] } })

\* C20: after loading, the lexicon has each key of the built-in table and of
\* the user's object once, with the user's value for the keys of the object
\* and the built-in value for the others; a missing file, invalid JSON and a
\* JSON value that is not an object leave the built-in table as it is, and
\* in no case does the loader raise or exit
C20_UserOverridesWin ==
    op = "_load_user_overrides" =>
        /\ raised = None
        /\ exit_code = None
        /\ IF user_file # None /\ Get(user_file).kind = "object"
           THEN LET members == Get(user_file).members
                    user(key) ==
                        members[CHOOSE n \in 1..Len(members) :
                                  /\ members[n][1] = key
                                  /\ \A i \in (n + 1)..Len(members) :
                                        members[i][1] # key][2]
                IN  /\ {app_commands[n][1] : n \in 1..Len(app_commands)} =
                         {APP_COMMANDS[n][1] : n \in 1..Len(APP_COMMANDS)}
                         \cup {members[n][1] : n \in 1..Len(members)}
                    /\ \A n, i \in 1..Len(app_commands) :
                          app_commands[n][1] = app_commands[i][1] => n = i
                    /\ \A n \in 1..Len(app_commands) :
                          IF \E i \in 1..Len(members) :
                                 members[i][1] = app_commands[n][1]
                          THEN app_commands[n][2] = user(app_commands[n][1])
                          ELSE app_commands[n] \in
                                 {APP_COMMANDS[i] : i \in 1..Len(APP_COMMANDS)}
           ELSE app_commands = APP_COMMANDS

\* a user file that overrides the built-in "firefox" and adds "mytool"
C20_Witness ==
    /\ op = "_load_user_overrides"
    /\ user_file = Some([kind |-> "object",
                         members |-> << <<"firefox", "firefox-esr">>,
                                        <<"mytool", "mytool --run">> >>])
    /\ Len(app_commands) = Len(APP_COMMANDS) + 1
    /\ app_commands[1] = <<"firefox", "firefox-esr">>
    /\ app_commands[Len(app_commands)] = <<"mytool", "mytool --run">>

\* C21: an utterance that no rule of the classifier matches, dispatched as
\* raw_command, gives the caller the string "I couldn't understand that"
C21_MissIsApology ==
    ( /\ op = "handle_voice_input"
      /\ intent # None
      /\ Get(intent).type = "raw_command" ) =>
        result = Some("I couldn't understand that")

\* C22: a change_brightness or change_volume intent made from an utterance
\* has a delta >= 0 when an "up" phrase chose the direction and a delta <= 0
\* when a "down" phrase did; without a spoken number its magnitude is that
\* of the remembered delta, whatever its sign (the default when it is 0);
\* the dispatch stores the signed delta as the new last delta
C22_DeltaSignFollowsDirection ==
    [][ ( /\ op' = "handle_voice_input"
          /\ intent' # None
          /\ Get(intent').type \in {"change_brightness", "change_volume"} ) =>
        LET i      == Get(intent')
            bright == i.type = "change_brightness"
            delta  == Get(i.delta)
            last   == IF bright THEN last_brightness_change
                      ELSE last_volume_change
            up     == IF bright
                      THEN AnyIn(i.raw, {"increase brightness",
                                         "raise brightness", "more brightness",
                                         "brighter"})
                      ELSE AnyIn(i.raw, {"increase volume", "raise volume",
                                         "turn it up", "louder"})
            size   == IF last = 0 THEN (IF bright THEN 10 ELSE 5)
                      ELSE IF last < 0 THEN 0 - last ELSE last
        IN  /\ up => delta >= 0
            /\ ~ up => delta <= 0
            /\ _extract_number(i.raw) = None =>
                  delta = IF up THEN size ELSE 0 - size
            /\ IF bright THEN last_brightness_change' = delta
               ELSE last_volume_change' = delta ]_vars

\* "brighter" after "darker": the delta -10 is remembered and +10 is used
C22_Witness ==
    /\ op = "handle_voice_input"
    /\ recent_commands = <<"darker", "brighter">>
    /\ calls = <<Call("handle_brightness", "relative", Some(10))>>
    /\ last_brightness_change = 10

\* C23: unless a pronoun or application rule applies first, a text for
\* which a rule of the brightness domain matches yields a brightness intent,
\* also when it names the volume; otherwise, in the volume domain, a text
\* with "mute" yields set_volume 0 whatever else it holds, and a text with
\* "set", "to" and a number yields set_volume of that number also when it
\* holds a relative phrase such as "louder"
C23_FirstMatchWins ==
    ( /\ op \in {"detect_intent_offline", "handle_voice_input"}
      /\ intent # None
      /\ Get(intent).type \notin {"open_app", "close_app", "close_all"} ) =>
        LET t        == Get(text)
            i        == Get(intent)
            number   == _extract_number(t)
            absolute == Contains(t, "set") /\ Contains(t, "to") /\ number # None
            bright   == /\ AnyIn(t, {"brightness", "brighter", "darker"})
                        /\ \/ absolute
                           \/ AnyIn(t, {"increase brightness", "raise brightness",
                                        "more brightness", "brighter",
                                        "decrease brightness", "lower brightness",
                                        "reduce brightness", "dim it", "darker"})
            volume   == AnyIn(t, {"volume", "sound", "louder", "quieter"})
        IN  /\ bright =>
                  /\ i.type \in {"set_brightness", "change_brightness"}
                  /\ absolute => (i.type = "set_brightness" /\ i.value = number)
            /\ (~ bright /\ volume /\ Contains(t, "mute")) =>
                  (i.type = "set_volume" /\ i.value = Some(0))
            /\ (~ bright /\ volume /\ ~ Contains(t, "mute") /\ absolute) =>
                  (i.type = "set_volume" /\ i.value = number)

\* a text with a brightness and a volume phrase has been classified
C23_Witness ==
    /\ op = "detect_intent_offline"
    /\ text = Some("brighter and louder")
    /\ Get(intent).type = "change_brightness"
    /\ Get(intent).delta = Some(10)

\* C24: a set_timer intent is made only from a text with a timer phrase and
\* a (number, unit) pattern and carries a duration_s > 0; handle_set_timer
\* is never called with a duration that is not positive
C24_TimerDurationPositive ==
    /\ ( /\ op \in {"detect_intent_offline", "handle_voice_input"}
         /\ intent # None
         /\ Get(intent).type = "set_timer" ) =>
            /\ AnyIn(Get(text), {"set a timer", "start a timer", "timer for"})
            /\ LeftmostDuration(Get(text)) > 0
            /\ Get(intent).duration_s # None
            /\ Get(Get(intent).duration_s) > 0
    /\ \A n \in 1..Len(calls) :
          calls[n].fn = "handle_set_timer" => Get(calls[n].arg) > 0

\* C25: the text of a raw_command is resolved by the first of these steps
\* that succeeds: it is a lexicon key, and that application is launched; a
\* lexicon key is part of it or it is part of a key, and the first such key
\* is launched; a key is close to it, and that key is launched; it is run as
\* an executable; and when none succeeds the caller gets the apology
C25_RawCommandResolution ==
    ( /\ op = "handle_voice_input"
      /\ intent # None
      /\ Get(intent).type = "raw_command" ) =>
        LET t        == Get(intent).raw
            keys     == Keys(app_commands)
            included == FirstIncluding(t, keys)
            fuzzy    == _match_app_fuzzy(t, keys)
            Launch(key) == <<Call("handle_app_launch", "app_name", Some(key))>>
        IN  IF IsKey(t, keys) THEN calls = Launch(t)
            ELSE IF included # None THEN calls = Launch(Get(included))
            ELSE IF fuzzy # None THEN calls = Launch(Get(fuzzy))
            ELSE \/ /\ Len(calls) = 1
                    /\ calls[1].fn = "execute_command"
                    /\ result = Some("Command executed successfully.")
                 \/ result \in {Some("I couldn't understand that"),
                                Some("I couldn't understand that (offline).")}

C27_VolumeSurvivesNormalization ==
    ( /\ op = "handle_voice_input"
      /\ Contains(Lower(Get(utterance)), "volume") ) =>
        /\ Contains(Get(text), "volume")
        /\ Get(utterance) = "set volume to 60" =>
              /\ Get(intent).type = "set_volume"
              /\ Get(intent).value = Some(60)
              /\ calls = <<Call("handle_volume", "absolute", Some(60))>>

\* C28: last_app is unset or a key of the lexicon; last_action is unset
\* until an intent other than the empty intent is dispatched, is the type
\* of that intent after its dispatch, and is changed by nothing else
C28_ContextWellFormed ==
    [][ /\ last_app' # None => IsKey(Get(last_app'), APP_COMMANDS_KEYS)
        /\ IF /\ op' \in {"handle_voice_input", "execute_intent"}
              /\ intent' # None
              /\ Get(intent').type # "empty"
           THEN last_action' = Some(Get(intent').type)
           ELSE last_action' = last_action ]_vars

\* an utterance of fillers only follows "open firefox": nothing is dispatched
\* but the empty intent and the context is that of "open firefox"
C28_Witness ==
    /\ op = "handle_voice_input"
    /\ utterance = Some("Please")
    /\ Get(intent).type = "empty"
    /\ recent_commands = <<"open firefox">>
    /\ last_action = Some("open_app")
    /\ last_app = Some("firefox")

\* C29: the dispatch of set_volume or change_volume leaves last_app and
\* last_brightness_change as they were, the dispatch of set_brightness or
\* change_brightness leaves last_app and last_volume_change as they were,
\* and last_app is changed by the dispatch of open_app and close_app only
C29_DomainsDoNotInterfere ==
    [][ ( /\ op' \in {"handle_voice_input", "execute_intent"}
          /\ intent' # None ) =>
        LET itype == Get(intent').type
        IN  /\ itype \in {"set_volume", "change_volume"} =>
                  /\ last_app' = last_app
                  /\ last_brightness_change' = last_brightness_change
            /\ itype \in {"set_brightness", "change_brightness"} =>
                  /\ last_app' = last_app
                  /\ last_volume_change' = last_volume_change
            /\ itype \notin {"open_app", "close_app"} =>
                  last_app' = last_app ]_vars

\* "louder" after "increase brightness by 20": both deltas are remembered
C29_Witness ==
    /\ op = "handle_voice_input"
    /\ recent_commands = <<"increase brightness by 20", "louder">>
    /\ Get(intent).type = "change_volume"
    /\ last_brightness_change = 20
    /\ last_volume_change = 5
    /\ last_app = None

\* C30: a command whose text is empty once the leading verb or article is
\* stripped, such as "open", launches no application
C30_BareVerbLaunchesNothing ==
    ( /\ op = "execute_command"
      /\ Get(utterance) # ""
      /\ Strip(StripLeading(Lower(Strip(Get(utterance))),
                 <<"open", "launch", "start", "run", "the", "a", "i">>)) = "" ) =>
        \A n \in 1..Len(calls) : calls[n].fn # "handle_app_launch"

====
